---- MODULE Spec2Model ----
(***************************************************************************)
(* Prompt Collection Manager: the record model (Prompt), the persistence   *)
(* layer (StorageManager over localStorage), the tree view, the detail     *)
(* viewer, the editor and the application controller, as one state machine *)
(* whose actions are the event handlers of the browser application.        *)
(*                                                                         *)
(* Text is a sequence of one-character strings, so that trimming, lower-   *)
(* casing, substring tests and concatenation are computed as the code      *)
(* computes them.  A category path is the sequence of its '/'-separated    *)
(* segments (the empty path is the empty string).  A nullable reference    *)
(* is a sequence of length 0 (null) or 1.                                  *)
(***************************************************************************)
EXTENDS Integers, Sequences, FiniteSets, TLC

VARIABLES
    prompts,        \* StorageManager.prompts: Map id -> Prompt
    categories,     \* StorageManager.categories: Map path -> info
    favorites,      \* StorageManager.favorites: Set of ids
    settings,       \* StorageManager.settings: object key -> value
    localStorage,   \* the five storage slots: key -> null or parsed JSON value
    idCounter,      \* how many identifiers generateId has produced
    now,            \* the wall clock that stamps a backup
    dom,            \* TreeView.container: the rendered category nodes
    expandedNodes,  \* TreeView.expandedNodes
    searchQuery,    \* TreeView.searchQuery
    filteredNodes,  \* TreeView.filteredNodes
    selectedNode,   \* TreeView.selectedNode (a node that may be detached)
    viewer,         \* PromptViewer.currentPrompt (an instance reference)
    editor,         \* PromptEditor: modal open, currentPrompt, isEditing, isDirty,
                    \* the form's content and the category options it offers
    backupTimer,    \* StorageManager.backupTimer is set (the periodic backup runs)
    search,         \* SearchController: the search box, currentQuery, whether
                    \* handle in searchTimeout, the pending timers, searchHistory and its storage slot
    last            \* the handler that ran last, its arguments and its result

vars == <<prompts, categories, favorites, settings, localStorage, idCounter, now,
          dom, expandedNodes, searchQuery, filteredNodes, selectedNode, viewer,
          editor, backupTimer, search, last>>

(***************************************************************************)
(* Bounds of the model and constants of the program                        *)
(***************************************************************************)
MaxIds == 4
MaxTime == 2
Today == 2
MaxTitleLen == 200
MaxPromptLen == 10000
MaxTags == 20
MAX_BACKUPS == 5
maxHistoryItems == 10

(***************************************************************************)
(* Text                                                                    *)
(***************************************************************************)
Null == <<>>
Some(x) == <<x>>

\* the element of a one-element set: The({e : x \in {v}}) is e with x standing
\* for the value of v
The(S) == CHOOSE x \in S : TRUE

UpperCase == <<"A", "B", "C", "D", "E", "F", "G", "H", "I", "J", "K", "L", "M",
               "N", "O", "P", "Q", "R", "S", "T", "U", "V", "W", "X", "Y", "Z">>
LowerCase == <<"a", "b", "c", "d", "e", "f", "g", "h", "i", "j", "k", "l", "m",
               "n", "o", "p", "q", "r", "s", "t", "u", "v", "w", "x", "y", "z">>
Digits == {"0", "1", "2", "3", "4", "5", "6", "7", "8", "9"}
WhiteSpace == {" ", "\n", "\t"}

\* the lower-case letter of each upper-case letter
Lower == [c \in {UpperCase[k] : k \in 1..26} |->
             LowerCase[CHOOSE k \in 1..26 : UpperCase[k] = c]]

toLowerCase(s) ==
    [i \in 1..Len(s) |-> IF s[i] \in DOMAIN Lower THEN Lower[s[i]] ELSE s[i]]

\* s.includes(t): t occurs in s at some offset
includes(s, t) ==
    \E i \in 0..(Len(s) - Len(t)) : \A j \in 1..Len(t) : s[i + j] = t[j]

\* s.trim(): from the first to the last character that is not white space
trim(s) ==
    LET n == Len(s)
        lead == CHOOSE k \in 0..n :
                   /\ \A j \in 1..k : s[j] \in WhiteSpace
                   /\ k = n \/ s[k + 1] \notin WhiteSpace
        trail == CHOOSE k \in 0..n :
                    /\ \A j \in (n - k + 1)..n : s[j] \in WhiteSpace
                    /\ k = n \/ s[n - k] \notin WhiteSpace
    IN  IF lead = n THEN <<>> ELSE SubSeq(s, lead + 1, n - trail)

RECURSIVE join(_, _)
join(list, sep) ==
    IF list = <<>> THEN <<>>
    ELSE IF Len(list) = 1 THEN list[1]
    ELSE The({list[1] \o sep \o join(rest, sep) : rest \in {Tail(list)}})

RECURSIVE split(_, _)
split(s, c) ==
    IF \A i \in 1..Len(s) : s[i] # c THEN <<s>>
    ELSE The({The({<<SubSeq(s, 1, k - 1)>> \o split(rest, c) :
                     rest \in {SubSeq(s, k + 1, Len(s))}}) :
                k \in {i \in 1..Len(s) : s[i] = c /\ \A j \in 1..(i - 1) : s[j] # c}})

TitleAICodeReview ==
    <<"A", "I", " ", "C", "o", "d", "e", " ", "R", "e", "v", "i", "e", "w">>
BodyAICodeReview ==
    <<"E", "s", "e", "g", "u", "i", " ", "u", "n", "a", " ", "c", "o", "d", "e", " ",
    "r", "e", "v", "i", "e", "w", " ", "d", "e", "t", "t", "a", "g", "l", "i", "a", "t",
    "a", " ", "d", "e", "l", " ", "s", "e", "g", "u", "e", "n", "t", "e", " ", "c", "o",
    "d", "i", "c", "e", " ", "J", "a", "v", "a", ",", " ", "s", "u", "g", "g", "e", "r",
    "e", "n", "d", "o", " ", "m", "i", "g", "l", "i", "o", "r", "a", "m", "e", "n", "t",
    "i", " ", "d", "i", " ", "s", "t", "i", "l", "e", ",", " ", "p", "e", "r", "f", "o",
    "r", "m", "a", "n", "c", "e", " ", "e", " ", "s", "i", "c", "u", "r", "e", "z", "z",
    "a", ":", "\n", "<", "i", "n", "s", "e", "r", "i", "s", "c", "i", " ", "q", "u", "i",
    " ", "i", "l", " ", "c", "o", "d", "i", "c", "e", ">">>
ModelAICodeReview ==
    <<"C", "l", "a", "u", "d", "e", " ", "S", "o", "n", "n", "e", "t", " ", "3", ".",
    "7", ",", " ", "G", "P", "T", "-", "4">>
AuthorUnspecified ==
    <<"N", "o", "n", " ", "s", "p", "e", "c", "i", "f", "i", "c", "a", "t", "o">>
NotesAICodeReview ==
    <<"P", "r", "o", "m", "p", "t", " ", "p", "e", "r", " ", "r", "e", "v", "i", "s",
    "i", "o", "n", "e", " ", "d", "e", "l", " ", "c", "o", "d", "i", "c", "e", " ", "c",
    "o", "n", " ", "f", "o", "c", "u", "s", " ", "s", "u", " ", "b", "e", "s", "t", " ",
    "p", "r", "a", "c", "t", "i", "c", "e", "s">>
TagJava ==
    <<"j", "a", "v", "a">>
TagCodeReview ==
    <<"c", "o", "d", "e", "-", "r", "e", "v", "i", "e", "w">>
TagProgramming ==
    <<"p", "r", "o", "g", "r", "a", "m", "m", "i", "n", "g">>
TitleRecruiter ==
    <<"R", "e", "c", "r", "u", "i", "t", "e", "r">>
BodyRecruiter ==
    <<"A", "g", "i", "s", "c", "i", " ", "c", "o", "m", "e", " ", "u", "n", " ", "r",
    "e", "c", "r", "u", "i", "t", "e", "r", " ", "e", "s", "p", "e", "r", "t", "o", ".",
    " ", "A", "n", "a", "l", "i", "z", "z", "a", " ", "i", "l", " ", "s", "e", "g", "u",
    "e", "n", "t", "e", " ", "C", "V", " ", "e", " ", "f", "o", "r", "n", "i", "s", "c",
    "i", " ", "f", "e", "e", "d", "b", "a", "c", "k", " ", "c", "o", "s", "t", "r", "u",
    "t", "t", "i", "v", "o", " ", "s", "u", "i", " ", "p", "u", "n", "t", "i", " ", "d",
    "i", " ", "f", "o", "r", "z", "a", " ", "e", " ", "l", "e", " ", "a", "r", "e", "e",
    " ", "d", "i", " ", "m", "i", "g", "l", "i", "o", "r", "a", "m", "e", "n", "t", "o",
    ".">>
ModelRecruiter ==
    <<"c", "l", "a", "u", "d", "e", " ", "s", "o", "n", "n", "e", "t">>
NotesRecruiter ==
    <<"U", "t", "i", "l", "e", " ", "p", "e", "r", " ", "v", "a", "l", "u", "t", "a",
    "z", "i", "o", "n", "e", " ", "C", "V", " ", "e", " ", "f", "e", "e", "d", "b", "a",
    "c", "k", " ", "c", "a", "n", "d", "i", "d", "a", "t", "i">>
TagRecruiting ==
    <<"r", "e", "c", "r", "u", "i", "t", "i", "n", "g">>
TagHr ==
    <<"h", "r">>
TagCvReview ==
    <<"c", "v", "-", "r", "e", "v", "i", "e", "w">>
TitleFurry ==
    <<"F", "u", "r", "r", "y", " ", "2", "D", " ", "A", "r", "t", " ", "g", "e", "n",
    "e", "r", "a", "t", "o", "r">>
BodyFurry ==
    <<"C", "r", "e", "a", "t", "e", " ", "a", " ", "c", "u", "t", "e", " ", "a", "n",
    "t", "h", "r", "o", "p", "o", "m", "o", "r", "p", "h", "i", "c", " ", "f", "o", "x",
    " ", "c", "h", "a", "r", "a", "c", "t", "e", "r", " ", "i", "n", " ", "2", "D", " ",
    "a", "n", "i", "m", "e", " ", "s", "t", "y", "l", "e", ",", " ", "w", "e", "a", "r",
    "i", "n", "g", " ", "c", "a", "s", "u", "a", "l", " ", "c", "l", "o", "t", "h", "e",
    "s", ",", " ", "f", "r", "i", "e", "n", "d", "l", "y", " ", "e", "x", "p", "r", "e",
    "s", "s", "i", "o", "n">>
NegativeFurry ==
    <<"r", "e", "a", "l", "i", "s", "t", "i", "c", ",", " ", "3", "d", ",", " ", "h",
    "u", "m", "a", "n", ",", " ", "s", "c", "a", "r", "y", ",", " ", "d", "a", "r",
    "k">>
ModelFurry ==
    <<"S", "t", "a", "b", "l", "e", " ", "D", "i", "f", "f", "u", "s", "i", "o", "n">>
NotesFurry ==
    <<"P", "e", "r", " ", "g", "e", "n", "e", "r", "a", "z", "i", "o", "n", "e", " ",
    "p", "e", "r", "s", "o", "n", "a", "g", "g", "i", " ", "f", "u", "r", "r", "y", " ",
    "i", "n", " ", "s", "t", "i", "l", "e", " ", "a", "n", "i", "m", "e">>
TagFurry ==
    <<"f", "u", "r", "r", "y">>
TagAnime ==
    <<"a", "n", "i", "m", "e">>
TagCharacterDesign ==
    <<"c", "h", "a", "r", "a", "c", "t", "e", "r", "-", "d", "e", "s", "i", "g", "n">>
CopyMarker ==
    <<" ", "(", "C", "o", "p", "y", ")">>
DefaultVersion ==
    <<"1", ".", "0">>
LabelTextGeneration ==
    <<"G", "e", "n", "e", "r", "a", "z", "i", "o", "n", "e", " ", "T", "e", "s", "t",
    "o">>
LabelImageGeneration ==
    <<"G", "e", "n", "e", "r", "a", "z", "i", "o", "n", "e", " ", "I", "m", "m", "a",
    "g", "i", "n", "i">>
LabelCode ==
    <<"C", "o", "d", "i", "c", "e">>
LabelOther ==
    <<"A", "l", "t", "r", "o">>
TagSeparator ==
    <<",", " ">>

(***************************************************************************)
(* Prompt (the record model)                                               *)
(***************************************************************************)
TYPES == {"text_generation", "image_generation", "code", "other"}

Has(data, f) == f \in DOMAIN data

\* data.f || dflt, for a text field, a list or a path (empty is falsy)
TextOr(data, f, dflt) == IF Has(data, f) /\ data[f] # <<>> THEN data[f] ELSE dflt
\* data.f || dflt, for a plain string (type) and for a date (0 stands for '')
StrOr(data, f, dflt) == IF Has(data, f) /\ data[f] # "" THEN data[f] ELSE dflt
DateOr(data, f, dflt) == IF Has(data, f) /\ data[f] # 0 THEN data[f] ELSE dflt

\* the n-th identifier generateId returns
generateId(n) == <<"prompt", n>>

\* stands where no identifier is
NoId == <<"none", 0>>

\* a date is a day number; a negative number stands for an unparseable string
isValidDate(d) == d > 0

isVersion(v) ==
    \E parts \in {split(v, ".")} :
        /\ Len(parts) \in {2, 3}
        /\ \A i \in 1..Len(parts) :
              parts[i] # <<>> /\ \A j \in 1..Len(parts[i]) : parts[i][j] \in Digits

\* the messages validate() collects; the record is valid when there are none
validate(p) ==
       (IF p.title = <<>> \/ trim(p.title) = <<>> THEN {"title required"} ELSE {})
  \cup (IF p.type = "" THEN {"type required"} ELSE {})
  \cup (IF p.prompt = <<>> \/ trim(p.prompt) = <<>> THEN {"prompt required"} ELSE {})
  \cup (IF p.type \notin TYPES THEN {"invalid type"} ELSE {})
  \cup (IF Len(p.title) > MaxTitleLen THEN {"title length"} ELSE {})
  \cup (IF Len(p.prompt) > MaxPromptLen THEN {"prompt length"} ELSE {})
  \cup (IF Len(p.tags) > MaxTags THEN {"tag count"} ELSE {})
  \cup (IF p.version # <<>> /\ ~isVersion(p.version) THEN {"version format"} ELSE {})
  \cup (IF p.created # 0 /\ ~isValidDate(p.created) THEN {"created date"} ELSE {})
  \cup (IF p.modified # 0 /\ ~isValidDate(p.modified) THEN {"modified date"} ELSE {})

\* new Prompt(data): the instance the constructor builds, and whether validate()
\* accepted it (the constructor throws when it did not)
Prompt(data, newId) ==
    The({[ok |-> validate(p) = {}, p |-> p, generated |-> ~Has(data, "id")] : p \in {
             [id              |-> IF Has(data, "id") THEN data.id ELSE newId,
              title           |-> TextOr(data, "title", <<>>),
              type            |-> StrOr(data, "type", "text_generation"),
              prompt          |-> TextOr(data, "prompt", <<>>),
              negative_prompt |-> TextOr(data, "negative_prompt", <<>>),
              model           |-> TextOr(data, "model", <<>>),
              author          |-> TextOr(data, "author", <<>>),
              tags            |-> IF Has(data, "tags") THEN data.tags ELSE <<>>,
              notes           |-> TextOr(data, "notes", <<>>),
              version         |-> TextOr(data, "version", DefaultVersion),
              created         |-> DateOr(data, "created", Today),
              modified        |-> DateOr(data, "modified", Today),
              category        |-> TextOr(data, "category", <<>>),
              isFavorite      |-> Has(data, "isFavorite") /\ data.isFavorite]}})

allowedFields == {"title", "type", "prompt", "negative_prompt", "model", "author",
                  "tags", "notes", "version", "category", "isFavorite"}

\* p.update(data): the instance after the assignments, and whether validate()
\* accepted it; the assignments stay when it did not
update(p, data) ==
    The({[ok |-> validate(q) = {}, p |-> q] : q \in {
             [f \in DOMAIN p |->
                 IF f = "modified" THEN Today
                 ELSE IF f \in allowedFields /\ Has(data, f) THEN data[f]
                 ELSE p[f]]}})

toObject(p) == p

\* the object without its id key (delete data.id)
WithoutId(obj) == [f \in DOMAIN obj \ {"id"} |-> obj[f]]

clone(p, newId) ==
    The({Prompt(data, newId) :
            data \in {[WithoutId(toObject(p)) EXCEPT !.title = @ \o CopyMarker]}})

getTypeDisplayName(p) ==
    CASE p.type = "text_generation" -> LabelTextGeneration
      [] p.type = "image_generation" -> LabelImageGeneration
      [] p.type = "code" -> LabelCode
      [] p.type = "other" -> LabelOther
      [] OTHER -> <<p.type>>

getTagsString(p) == join(p.tags, TagSeparator)

matchesSearch(p, query) ==
    IF query = <<>> \/ trim(query) = <<>> THEN TRUE
    ELSE \E searchText \in {toLowerCase(query)} :
         \E field \in {p.title, p.prompt, p.notes, p.author, p.model,
                       getTagsString(p), getTypeDisplayName(p)} :
            /\ field # <<>>
            /\ \E lower \in {toLowerCase(field)} : includes(lower, searchText)

(***************************************************************************)
(* StorageManager (the persistence layer).  Its state is handled as one    *)
(* record sm = [prompts, categories, favorites, settings, ls]; ls is       *)
(* localStorage.  A JSON array of records is kept as the function from     *)
(* identifier to record, a JSON array of identifiers as their set.         *)
(***************************************************************************)
STORAGE_KEYS == {"PROMPTS", "CATEGORIES", "FAVORITES", "SETTINGS", "BACKUP"}

EmptyMap == <<>>

\* {...a, ...b}
Spread(a, b) ==
    [k \in (DOMAIN a) \cup (DOMAIN b) |-> IF k \in DOMAIN b THEN b[k] ELSE a[k]]

\* map.delete(k)
MapDelete(m, k) == [x \in (DOMAIN m) \ {k} |-> m[x]]

\* map.set(k, v)
MapSet(m, k, v) == [x \in (DOMAIN m) \cup {k} |-> IF x = k THEN v ELSE m[x]]

SM == [prompts |-> prompts, categories |-> categories, favorites |-> favorites,
       settings |-> settings, ls |-> localStorage]

getDefaultSettings ==
    [theme |-> "light", autoSave |-> TRUE, backupEnabled |-> TRUE,
     searchDebounce |-> 300, itemsPerPage |-> 50, defaultCategory |-> "general",
     sortBy |-> "modified", sortOrder |-> "desc"]

FAVORITES == <<"favorites">>
UNCATEGORIZED == <<"uncategorized">>

defaultCategories ==
    (FAVORITES :> [name |-> "* Favorites", icon |-> "star", color |-> "#fbbf24"])
 @@ (<<"productivity">> :> [name |-> "Productivity", icon |-> "folder", color |-> "#3b82f6"])
 @@ (<<"linguaggi">> :> [name |-> "Linguaggi", icon |-> "folder", color |-> "#10b981"])
 @@ (<<"linguaggi", "java">> :> [name |-> "Java", icon |-> "file", color |-> "#f59e0b"])
 @@ (<<"immagini">> :> [name |-> "Immagini", icon |-> "folder", color |-> "#8b5cf6"])
 @@ (<<"llm">> :> [name |-> "LLM", icon |-> "folder", color |-> "#ef4444"])
 @@ (<<"general">> :> [name |-> "Generale", icon |-> "folder", color |-> "#6b7280"])

\* the content of a slot that JSON.parse rejects
Corrupt == <<"not", "JSON">>

\* getFromStorage(key): null for an empty slot and for one JSON.parse rejects
getFromStorage(ls, key) == IF ls[key] = Corrupt THEN Null ELSE ls[key]

saveToStorage(ls, key, data) == [ls EXCEPT ![key] = Some(data)]

savePrompts(sm) ==
    [sm EXCEPT !.ls = saveToStorage(sm.ls, "PROMPTS",
                         [id \in DOMAIN sm.prompts |-> toObject(sm.prompts[id])])]

saveCategories(sm) ==
    [sm EXCEPT !.ls = saveToStorage(sm.ls, "CATEGORIES", sm.categories)]

saveFavorites(sm) ==
    [sm EXCEPT !.ls = saveToStorage(sm.ls, "FAVORITES", sm.favorites)]

saveSettings(sm) ==
    [sm EXCEPT !.ls = saveToStorage(sm.ls, "SETTINGS", sm.settings)]

saveAll(sm) ==
    The({The({The({saveSettings(c) : c \in {saveFavorites(b)}}) :
                 b \in {saveCategories(a)}}) :
            a \in {savePrompts(sm)}})

initializeDefaultCategories(sm) ==
    saveCategories([sm EXCEPT !.categories = defaultCategories])

\* the stored array read back: one Prompt per entry the constructor accepts
loadPrompts(sm) ==
    The({IF data = Null THEN sm
         ELSE The({[sm EXCEPT !.prompts =
                       [id \in {made.p.id : made \in good} |->
                           (CHOOSE made \in good : made.p.id = id).p]] :
                   good \in {{made \in {Prompt(data[1][k], NoId) : k \in DOMAIN data[1]} :
                                 made.ok}}}) :
         data \in {getFromStorage(sm.ls, "PROMPTS")}})

loadCategories(sm) ==
    The({IF data # Null THEN [sm EXCEPT !.categories = data[1]]
         ELSE initializeDefaultCategories(sm) :
         data \in {getFromStorage(sm.ls, "CATEGORIES")}})

loadFavorites(sm) ==
    The({IF data # Null THEN [sm EXCEPT !.favorites = data[1]] ELSE sm :
         data \in {getFromStorage(sm.ls, "FAVORITES")}})

loadSettings(sm) ==
    The({IF data # Null THEN [sm EXCEPT !.settings = Spread(getDefaultSettings, data[1])]
         ELSE [sm EXCEPT !.settings = getDefaultSettings] :
         data \in {getFromStorage(sm.ls, "SETTINGS")}})

loadData(sm) ==
    The({The({The({loadSettings(c) : c \in {loadFavorites(b)}}) :
                 b \in {loadCategories(a)}}) :
            a \in {loadPrompts(sm)}})

\* the stored backup list, or [] when the slot is empty
Backups(ls) ==
    IF getFromStorage(ls, "BACKUP") = Null THEN <<>> ELSE getFromStorage(ls, "BACKUP")[1]

\* backups.slice(0, n)
Slice(list, n) == SubSeq(list, 1, IF Len(list) < n THEN Len(list) ELSE n)

\* the snapshot createBackup() takes
Snapshot(sm, time) ==
    [timestamp |-> time,
     version   |-> "1.0",
     data      |-> [prompts    |-> [id \in DOMAIN sm.prompts |-> toObject(sm.prompts[id])],
                    categories |-> sm.categories,
                    favorites  |-> sm.favorites,
                    settings   |-> sm.settings]]

\* the snapshot is pushed at the end of the list
trimmedBackupsPushes(backups, backup) == Slice(backups \o <<backup>>, MAX_BACKUPS)

\* backups.unshift(backup); backups.slice(0, MAX_BACKUPS)
trimmedBackups(backups, backup) == Slice(<<backup>> \o backups, MAX_BACKUPS)

createBackup(sm, time) ==
    The({[sm EXCEPT !.ls = saveToStorage(sm.ls, "BACKUP", trimmed)] :
            trimmed \in {The({trimmedBackups(backups, backup) :
                                 backups \in {Backups(sm.ls)},
                                 backup \in {Snapshot(sm, time)}})}})

\* restoreFromBackup(backupIndex): the state it leaves and the value it returns.
\* backupIndex counts from 0.  The loop over the snapshot's records stops at the
\* first one the constructor rejects; the snapshot's array order is the order
\* CHOOSE fixes below (the model keeps no insertion order).
RECURSIVE RestorePrompts(_, _)
RestorePrompts(data, acc) ==
    IF DOMAIN data = {} THEN [ok |-> TRUE, prompts |-> acc]
    ELSE The({The({IF ~made.ok THEN [ok |-> FALSE, prompts |-> acc]
                   ELSE The({RestorePrompts(rest, next) :
                                rest \in {MapDelete(data, k)},
                                next \in {MapSet(acc, made.p.id, made.p)}}) :
                   made \in {Prompt(data[k], NoId)}}) :
              k \in {CHOOSE x \in DOMAIN data : TRUE}})

\* what restoreFromBackup does once the index has passed its check: the records
\* are cleared and built again, then the rest is replaced and all is saved
restoreSnapshot(sm, data) ==
    The({IF ~restored.ok
         THEN [ok |-> FALSE, sm |-> [sm EXCEPT !.prompts = restored.prompts]]
         ELSE The({[ok |-> TRUE, sm |-> saveAll(next)] :
                     next \in {[sm EXCEPT
                                  !.prompts = restored.prompts,
                                  !.categories = data.categories,
                                  !.favorites = data.favorites,
                                  !.settings = Spread(getDefaultSettings,
                                                      data.settings)]}}) :
         restored \in {RestorePrompts(data.prompts, EmptyMap)}})

\* the records are cleared before the index is checked
restoreFromBackupClearsFirst(sm, backupIndex) ==
    IF backupIndex >= Len(Backups(sm.ls)) \/ backupIndex < 0
    THEN [ok |-> FALSE, sm |-> [sm EXCEPT !.prompts = EmptyMap]]
    ELSE restoreSnapshot(sm, Backups(sm.ls)[backupIndex + 1].data)

\* a negative index passes the comparison and reads backups[backupIndex], which is
\* undefined: the read of its data throws before anything is cleared
restoreFromBackup(sm, backupIndex) ==
    The({IF backupIndex >= Len(backups) THEN [ok |-> FALSE, sm |-> sm]
         ELSE IF backupIndex < 0 THEN [ok |-> FALSE, sm |-> sm]
         ELSE The({restoreSnapshot(sm, data) : data \in {backups[backupIndex + 1].data}}) :
         backups \in {Backups(sm.ls)}})

clearAll(sm) ==
    [prompts |-> EmptyMap, categories |-> EmptyMap, favorites |-> {},
     settings |-> getDefaultSettings, ls |-> [k \in STORAGE_KEYS |-> Null]]

\* What the parsers make of an import text: text.json and text.yaml are each
\* [throws, value], value being null (Null) or the parsed object (Some(object)).
ParseImport(text, format) ==
    IF format = "auto" THEN (IF ~text.json.throws THEN text.json ELSE text.yaml)
    ELSE IF format = "json" THEN text.json
    ELSE IF format = "yaml" THEN text.yaml
    ELSE [throws |-> FALSE, value |-> Null]

\* a record of the file overwrites the stored one of its identifier
importPromptOverwrites(acc, made, merge) ==
    IF ~made.ok THEN [acc EXCEPT !.errors = @ + 1]
    ELSE [acc EXCEPT !.prompts = MapSet(@, made.p.id, made.p), !.imported = @ + 1]

\* the body of parsedData.prompts.forEach, made being what new Prompt(promptData)
\* gave: acc = [prompts, counter, imported, skipped, errors]
importPrompt(acc, made, merge) ==
    IF ~made.ok THEN [acc EXCEPT !.errors = @ + 1]
    ELSE IF ~merge \/ made.p.id \notin DOMAIN acc.prompts
    THEN [acc EXCEPT !.prompts = MapSet(@, made.p.id, made.p), !.imported = @ + 1]
    ELSE [acc EXCEPT !.skipped = @ + 1]

\* parsedData.prompts.forEach
RECURSIVE ImportPrompts(_, _, _)
ImportPrompts(list, merge, acc) ==
    IF list = <<>> THEN acc
    ELSE The({The({ImportPrompts(rest, merge, next) :
                     rest \in {Tail(list)},
                     next \in {[importPrompt(acc, made, merge) EXCEPT
                                  !.counter = IF made.generated THEN @ + 1 ELSE @]}}) :
              made \in {Prompt(Head(list), generateId(acc.counter + 1))}})

\* importData(data, format, merge): whether it threw, the state it leaves, the
\* identifier counter and the result summary
NoResult == [imported |-> 0, skipped |-> 0, errors |-> 0]

\* the body of importData from the first use of parsedData on: the records, the
\* categories, the favorites, the settings, then saveAll()
importParsed(sm, counter, parsedData, merge) ==
    The({The({[thrown |-> FALSE, sm |-> saveAll(merged), counter |-> acc.counter,
               result |-> [imported |-> acc.imported, skipped |-> acc.skipped,
                           errors |-> acc.errors]] :
                merged \in {[sm EXCEPT
                               !.prompts = acc.prompts,
                               !.categories = IF Has(parsedData, "categories")
                                              THEN Spread(@, parsedData.categories) ELSE @,
                               !.favorites = IF Has(parsedData, "favorites")
                                             THEN @ \cup parsedData.favorites ELSE @,
                               !.settings = IF Has(parsedData, "settings")
                                            THEN Spread(@, parsedData.settings) ELSE @]}}) :
         acc \in {ImportPrompts(
                     IF Has(parsedData, "prompts") THEN parsedData.prompts ELSE <<>>,
                     merge,
                     [prompts |-> sm.prompts, counter |-> counter,
                      imported |-> 0, skipped |-> 0, errors |-> 0])}})

importData(sm, counter, text, format, merge) ==
    The({IF parsed.throws
         THEN [thrown |-> TRUE, sm |-> sm, counter |-> counter, result |-> NoResult]
         ELSE The({IF parsed.value = Null
                   THEN [thrown |-> TRUE, sm |-> cleared, counter |-> counter,
                         result |-> NoResult]
                   ELSE importParsed(cleared, counter, parsed.value[1], merge) :
                   cleared \in {IF ~merge THEN clearAll(sm) ELSE sm}}) :
         parsed \in {ParseImport(text, format)}})

(***************************************************************************)
(* TreeView.  Its state is handled as one record                           *)
(* tv = [dom, expandedNodes, searchQuery, filteredNodes].  dom maps the    *)
(* path of each rendered category node to [display, expanded, kids], kids  *)
(* mapping the id of each record node under it to [display, highlighted];  *)
(* display is TRUE for style.display = '' and FALSE for 'none'.            *)
(***************************************************************************)
TV == [dom |-> dom, expandedNodes |-> expandedNodes, searchQuery |-> searchQuery,
       filteredNodes |-> filteredNodes]

\* prompt.category || 'uncategorized'
CategoryOf(p) == IF p.category = <<>> THEN UNCATEGORIZED ELSE p.category

buildTreeStructure(sm) ==
    LET paths == (DOMAIN sm.categories) \ {FAVORITES}
        parent(path) == IF Len(path) > 1 THEN Some(SubSeq(path, 1, Len(path) - 1))
                        ELSE Null
        ids == DOMAIN sm.prompts
    IN  [categories |->
            [path \in paths |->
                [info |-> sm.categories[path],
                 items |-> {id \in ids : CategoryOf(sm.prompts[id]) = path},
                 parent |-> parent(path),
                 children |-> {c \in paths : parent(c) = Some(path)}]],
         favorites |-> {id \in ids : sm.prompts[id].isFavorite},
         uncategorized |-> {id \in ids : /\ CategoryOf(sm.prompts[id]) \notin paths
                                         /\ CategoryOf(sm.prompts[id]) = UNCATEGORIZED
                                         /\ ~sm.prompts[id].isFavorite}]

\* renderCategoryNode(path, info, items)
renderCategoryNode(tv, path, items) ==
    [display |-> TRUE,
     expanded |-> path \in tv.expandedNodes,
     kids |-> [id \in items |-> [display |-> TRUE, highlighted |-> FALSE]]]

\* saveExpandedState()
saveExpandedState(tv, sm) ==
    saveSettings([sm EXCEPT !.settings = MapSet(sm.settings, "expandedNodes",
                                                 tv.expandedNodes)])

\* expandNode(node) on each of the rendered category nodes in paths
expandNodes(tv, sm, paths) ==
    The({IF shown = {} THEN [tv |-> tv, sm |-> sm]
         ELSE The({[tv |-> tv2, sm |-> saveExpandedState(tv2, sm)] :
                     tv2 \in {[tv EXCEPT
                                 !.expandedNodes = @ \cup shown,
                                 !.dom = [p \in DOMAIN tv.dom |->
                                            IF p \in shown
                                            THEN [tv.dom[p] EXCEPT !.expanded = TRUE]
                                            ELSE tv.dom[p]]]}}) :
         shown \in {paths \cap DOMAIN tv.dom}})

\* collapseNode(node) on each of the rendered category nodes in paths
collapseNodes(tv, sm, paths) ==
    The({IF shown = {} THEN [tv |-> tv, sm |-> sm]
         ELSE The({[tv |-> tv2, sm |-> saveExpandedState(tv2, sm)] :
                     tv2 \in {[tv EXCEPT
                                 !.expandedNodes = @ \ shown,
                                 !.dom = [p \in DOMAIN tv.dom |->
                                            IF p \in shown
                                            THEN [tv.dom[p] EXCEPT !.expanded = FALSE]
                                            ELSE tv.dom[p]]]}}) :
         shown \in {paths \cap DOMAIN tv.dom}})

\* toggleNode(node) of the rendered category node at path
toggleNode(tv, sm, path) ==
    IF path \in tv.expandedNodes
    THEN collapseNodes(tv, sm, {path}) ELSE expandNodes(tv, sm, {path})

\* expandAll(): toggleNode(node, true) on every rendered category node
expandAll(tv, sm) == expandNodes(tv, sm, DOMAIN tv.dom)

\* collapseAll(): toggleNode(node, false) on every rendered category node
\* but the favorites node
collapseAll(tv, sm) == collapseNodes(tv, sm, DOMAIN tv.dom \ {FAVORITES})

\* DOMUtils.highlightText(title, query) wraps a match in a highlight span
highlightText(title, query) ==
    \E lower \in {toLowerCase(title)}, searchText \in {toLowerCase(query)} :
        includes(lower, searchText)

\* applySearchFilter(query).  The nodes are visited in document order, a category
\* node before the record nodes under it, so a category is shown or hidden by the
\* display its record nodes had before this call.
\* whether a record node under the category node is displayed
hasVisibleChildren(node) == \E id \in DOMAIN node.kids : node.kids[id].display

applySearchFilter(tv, sm, query) ==
    IF query = <<>>
    THEN [tv |-> [tv EXCEPT
                    !.searchQuery = <<>>,
                    !.filteredNodes = {},
                    !.dom = [p \in DOMAIN tv.dom |->
                               [tv.dom[p] EXCEPT
                                  !.display = TRUE,
                                  !.kids = [id \in DOMAIN tv.dom[p].kids |->
                                              [tv.dom[p].kids[id] EXCEPT !.display = TRUE]]]]],
          sm |-> sm]
    ELSE The({The({expandNodes(filtered, sm,
                               {p \in DOMAIN tv.dom : hasVisibleChildren(tv.dom[p])}) :
                     filtered \in {[tv EXCEPT
                        !.searchQuery = toLowerCase(query),
                        !.filteredNodes = matching,
                        !.dom = [p \in DOMAIN tv.dom |->
                                   [tv.dom[p] EXCEPT
                                      !.display = hasVisibleChildren(tv.dom[p]),
                                      !.kids = [id \in DOMAIN tv.dom[p].kids |->
                                         IF id \in matching
                                         THEN [display |-> TRUE,
                                               highlighted |->
                                                  highlightText(sm.prompts[id].title, query)]
                                         ELSE [tv.dom[p].kids[id] EXCEPT
                                                 !.display = FALSE]]]]]}}) :
              matching \in {{id \in DOMAIN sm.prompts :
                               matchesSearch(sm.prompts[id], query)}}})

\* clearSearchFilter()
clearSearchFilter(tv, sm) ==
    [tv EXCEPT
       !.searchQuery = <<>>,
       !.filteredNodes = {},
       !.dom = [p \in DOMAIN tv.dom |->
                  [tv.dom[p] EXCEPT
                     !.display = TRUE,
                     !.kids = [id \in DOMAIN tv.dom[p].kids |->
                        [display |-> TRUE,
                         highlighted |-> IF id \in DOMAIN sm.prompts THEN FALSE
                                         ELSE tv.dom[p].kids[id].highlighted]]]]]

\* render(): build, render the three kinds of bucket, restoreExpandedState, and
\* apply the search filter again when one is active
\* the container after render() has appended the category nodes
renderTree(tv, tree) ==
    [p \in (IF tree.favorites # {} THEN {FAVORITES} ELSE {})
           \cup (DOMAIN tree.categories)
           \cup (IF tree.uncategorized # {} THEN {UNCATEGORIZED} ELSE {}) |->
        IF p = FAVORITES THEN renderCategoryNode(tv, p, tree.favorites)
        ELSE IF p \in DOMAIN tree.categories
        THEN renderCategoryNode(tv, p, tree.categories[p].items)
        ELSE renderCategoryNode(tv, p, tree.uncategorized)]

render(tv, sm) ==
    The({The({IF tv.searchQuery # <<>>
              THEN applySearchFilter(restored.tv, restored.sm, tv.searchQuery)
              ELSE restored :
              restored \in {The({expandNodes(drawn, sm, tv.expandedNodes) :
                                   drawn \in {[tv EXCEPT !.dom = renderTree(tv, tree)]}})}}) :
         tree \in {buildTreeStructure(sm)}})

(***************************************************************************)
(* PromptViewer and PromptEditor.  viewer is null or [id, live, obj]: the  *)
(* instance the viewer holds is the one stored under id (live) or one the  *)
(* store has dropped since (obj is then its content).  editor.cur is null  *)
(* or [id, live] in the same way.  selectedNode is null or the node that   *)
(* was selected, which stays referenced after the tree is rendered again.  *)
(***************************************************************************)
showWelcomeScreen == Null

\* showPrompt(promptId): the reference the viewer holds afterwards
showPrompt(ps, promptId) ==
    IF promptId \in DOMAIN ps
    THEN Some([id |-> promptId, live |-> TRUE, obj |-> Null])
    ELSE showWelcomeScreen

\* this.currentPrompt of the viewer
CurrentPrompt(v, ps) == IF v[1].live THEN ps[v[1].id] ELSE v[1].obj[1]

\* the store drops the instances stored under the ids in gone
DetachViewer(v, ps, gone) ==
    IF v # Null /\ v[1].live /\ v[1].id \in gone
    THEN Some([id |-> v[1].id, live |-> FALSE, obj |-> Some(ps[v[1].id])])
    ELSE v

DetachEditor(e, gone) ==
    IF e.cur # Null /\ e.cur[1].live /\ e.cur[1].id \in gone
    THEN [e EXCEPT !.cur = Some([id |-> e.cur[1].id, live |-> FALSE])]
    ELSE e

PromptNode(id) == Some([type |-> "prompt", id |-> id, path |-> <<>>])
CategoryNode(path) == Some([type |-> "category", id |-> NoId, path |-> path])

\* the ids of the record nodes in the container
RenderedIds(d) == UNION {DOMAIN d[p].kids : p \in DOMAIN d}

\* selectPromptById(promptId): the first node with that id is selected and the
\* category node around it expanded; favorites is rendered first
selectPromptById(tv, sm, sel, v, promptId) ==
    IF promptId \notin RenderedIds(tv.dom)
    THEN [tv |-> tv, sm |-> sm, sel |-> sel, v |-> v]
    ELSE The({[tv |-> r.tv, sm |-> r.sm, sel |-> PromptNode(promptId),
               v |-> showPrompt(sm.prompts, promptId)] :
              r \in {The({expandNodes(tv, sm, {IF FAVORITES \in around THEN FAVORITES
                                                ELSE CHOOSE p \in around : TRUE}) :
                            around \in {{p \in DOMAIN tv.dom :
                                           promptId \in DOMAIN tv.dom[p].kids}}})}})

\* form.reset(): every field empty, the type select on its first option
EmptyForm ==
    [title |-> <<>>, type |-> "text_generation", prompt |-> <<>>,
     negative_prompt |-> <<>>, model |-> <<>>, author |-> <<>>, notes |-> <<>>,
     version |-> <<>>, category |-> <<>>, tags |-> <<>>, isFavorite |-> FALSE]

\* a select takes a value only when one of its options has it
SelectValue(options, value, none) == IF value \in options THEN value ELSE none

\* populateForm(prompt)
populateForm(p, options) ==
    [title |-> p.title, type |-> SelectValue(TYPES, p.type, ""), prompt |-> p.prompt,
     negative_prompt |-> p.negative_prompt, model |-> p.model, author |-> p.author,
     notes |-> p.notes, version |-> p.version,
     category |-> SelectValue(options, p.category, <<>>),
     tags |-> join(p.tags, TagSeparator), isFavorite |-> p.isFavorite]

\* parseTags(tagsString)
parseTags(tagsString) ==
    IF tagsString = <<>> THEN <<>>
    ELSE The({The({Slice(kept, MaxTags) :
                     kept \in {SelectSeq([i \in 1..Len(parts) |-> trim(parts[i])],
                                        LAMBDA tag : Len(tag) > 0)}}) :
              parts \in {split(tagsString, ",")}})

\* the version field is not looked at
validateFormSkipsVersion(form) ==
    /\ trim(form.title) # <<>>
    /\ form.type # ""
    /\ trim(form.prompt) # <<>>
    /\ Len(form.title) <= MaxTitleLen
    /\ Len(form.prompt) <= MaxPromptLen
    /\ form.tags = <<>> \/ Len(parseTags(form.tags)) <= MaxTags

\* validateForm(): TRUE when the form may be saved
validateForm(form) ==
    /\ trim(form.title) # <<>>
    /\ form.type # ""
    /\ trim(form.prompt) # <<>>
    /\ Len(form.title) <= MaxTitleLen
    /\ Len(form.prompt) <= MaxPromptLen
    /\ form.version = <<>> \/ isVersion(form.version)
    /\ form.tags = <<>> \/ Len(parseTags(form.tags)) <= MaxTags

\* collectFormData()
collectFormData(form) ==
    [title |-> trim(form.title), type |-> form.type, prompt |-> trim(form.prompt),
     negative_prompt |-> trim(form.negative_prompt), model |-> trim(form.model),
     author |-> trim(form.author), notes |-> trim(form.notes),
     version |-> trim(form.version), category |-> form.category,
     tags |-> parseTags(form.tags), isFavorite |-> form.isFavorite]

\* close() once the confirmation, if any, is given
closed(e) ==
    [e EXCEPT !.open = FALSE, !.cur = Null, !.isEditing = FALSE, !.isDirty = FALSE,
              !.form = EmptyForm]

\* close(): a dirty form asks for a confirmation first
close(e, confirmed) == IF e.isDirty /\ ~confirmed THEN e ELSE closed(e)

(***************************************************************************)
(* AppController: start of a session                                       *)
(***************************************************************************)
samplePrompts ==
    << [title |-> TitleAICodeReview, type |-> "text_generation",
        prompt |-> BodyAICodeReview, model |-> ModelAICodeReview,
        author |-> AuthorUnspecified,
        tags |-> <<TagJava, TagCodeReview, TagProgramming>>,
        notes |-> NotesAICodeReview, version |-> DefaultVersion,
        category |-> <<"linguaggi", "java">>, isFavorite |-> TRUE],
       [title |-> TitleRecruiter, type |-> "text_generation",
        prompt |-> BodyRecruiter, model |-> ModelRecruiter,
        author |-> AuthorUnspecified,
        tags |-> <<TagRecruiting, TagHr, TagCvReview>>,
        notes |-> NotesRecruiter, version |-> DefaultVersion,
        category |-> <<"productivity">>, isFavorite |-> FALSE],
       [title |-> TitleFurry, type |-> "image_generation",
        prompt |-> BodyFurry, negative_prompt |-> NegativeFurry,
        model |-> ModelFurry, author |-> AuthorUnspecified,
        tags |-> <<TagFurry, TagAnime, TagCharacterDesign>>,
        notes |-> NotesFurry, version |-> DefaultVersion,
        category |-> <<"immagini">>, isFavorite |-> FALSE] >>

\* samplePrompts.forEach of createSamplePrompts
RECURSIVE AddSamples(_, _, _)
AddSamples(list, sm, counter) ==
    IF list = <<>> THEN [sm |-> sm, counter |-> counter]
    ELSE The({The({AddSamples(rest, next, counter + 1) :
                     rest \in {Tail(list)},
                     next \in {IF ~made.ok THEN sm
                               ELSE [sm EXCEPT
                                       !.prompts = MapSet(@, made.p.id, made.p),
                                       !.favorites = IF made.p.isFavorite
                                                     THEN @ \cup {made.p.id} ELSE @]}}) :
              made \in {Prompt(Head(list), generateId(counter + 1))}})

createSamplePrompts(tv, sm, counter) ==
    The({The({[tv |-> r.tv, sm |-> r.sm, counter |-> added.counter] :
                r \in {The({render(tv, saved) :
                              saved \in {The({saveFavorites(s) :
                                               s \in {savePrompts(added.sm)}})}})}}) :
         added \in {AddSamples(samplePrompts, sm, counter)}})

\* The constructors in the order initialize() runs them: StorageManager (loadData,
\* startAutoBackup), TreeView (render, then loadExpandedState), PromptViewer,
\* PromptEditor (its category options), then initializeSampleData.
\* new TreeView(): render(), then loadExpandedState()
newTreeView(sm) ==
    The({[tv |-> [r.tv EXCEPT !.expandedNodes =
                     IF Has(r.sm.settings, "expandedNodes")
                     THEN r.sm.settings.expandedNodes ELSE {}],
          sm |-> r.sm] :
            r \in {render([dom |-> EmptyMap, expandedNodes |-> {}, searchQuery |-> <<>>,
                           filteredNodes |-> {}], sm)}})

\* new PromptEditor(): the closed modal and the category options of its form
newPromptEditor(sm) ==
    [open |-> FALSE, cur |-> Null, isEditing |-> FALSE, isDirty |-> FALSE,
     form |-> EmptyForm, options |-> (DOMAIN sm.categories) \ {FAVORITES}]

\* the most timers the model lets be pending at a time
MaxTimers == 2

\* setTimeout(callback, debounceMs) returns a handle no pending timer has
setTimeout(timers) == CHOOSE id \in 1..(MaxTimers + 1) : id \notin timers

\* if (this.searchTimeout) clearTimeout(this.searchTimeout); clearing a handle
\* whose timer fired does nothing
clearTimeout(timers, handle) == IF handle = Null THEN timers ELSE timers \ {handle[1]}

\* new SearchController(): loadSearchHistory() reads the stored history
newSearchController(stored) ==
    [input |-> <<>>, currentQuery |-> <<>>, searchTimeout |-> Null, timers |-> {},
     searchHistory |-> IF stored = Null THEN <<>> ELSE stored[1],
     stored |-> stored]

PageLoad(ls, counter) ==
    The({The({The({[sm |-> s.sm, tv |-> s.tv, counter |-> s.counter,
                    timer |-> sm0.settings.backupEnabled,
                    editor |-> newPromptEditor(sm0)] :
                     s \in {IF DOMAIN r0.sm.prompts = {}
                            THEN createSamplePrompts(r0.tv, r0.sm, counter)
                            ELSE [tv |-> r0.tv, sm |-> r0.sm, counter |-> counter]}}) :
                r0 \in {newTreeView(sm0)}}) :
         sm0 \in {loadData([prompts |-> EmptyMap, categories |-> EmptyMap,
                            favorites |-> {}, settings |-> EmptyMap, ls |-> ls])}})

\* what last holds; every handler fills in the fields it has
NoLast ==
    [op |-> "init", id |-> NoId, path |-> <<>>, existed |-> FALSE, confirmed |-> FALSE,
     ok |-> FALSE, idx |-> 0, format |-> "", merge |-> FALSE, thrown |-> FALSE,
     incoming |-> <<>>, imported |-> 0, skipped |-> 0, errors |-> 0,
     warnings |-> 0, writes |-> 0,
     query |-> <<>>, hadBackups |-> 0, events |-> {}, loaded |-> Null,
     before |-> Null]

\* the assignments a handler ends with
Commit(sm, tv, counter, sel, v, e, l) ==
    /\ prompts' = sm.prompts
    /\ categories' = sm.categories
    /\ favorites' = sm.favorites
    /\ settings' = sm.settings
    /\ localStorage' = sm.ls
    /\ dom' = tv.dom
    /\ expandedNodes' = tv.expandedNodes
    /\ searchQuery' = tv.searchQuery
    /\ filteredNodes' = tv.filteredNodes
    /\ idCounter' = counter
    /\ selectedNode' = sel
    /\ viewer' = v
    /\ editor' = e
    /\ last' = l
    /\ UNCHANGED <<now, backupTimer, search>>

\* the assignments a handler of the search box ends with
CommitSearch(sm, tv, sel, v, s, l) ==
    /\ prompts' = sm.prompts
    /\ categories' = sm.categories
    /\ favorites' = sm.favorites
    /\ settings' = sm.settings
    /\ localStorage' = sm.ls
    /\ dom' = tv.dom
    /\ expandedNodes' = tv.expandedNodes
    /\ searchQuery' = tv.searchQuery
    /\ filteredNodes' = tv.filteredNodes
    /\ selectedNode' = sel
    /\ viewer' = v
    /\ search' = s
    /\ last' = l
    /\ UNCHANGED <<idCounter, now, editor, backupTimer>>

Init ==
    \E page \in {PageLoad([k \in STORAGE_KEYS |-> Null], 0)} :
        /\ prompts = page.sm.prompts
        /\ categories = page.sm.categories
        /\ favorites = page.sm.favorites
        /\ settings = page.sm.settings
        /\ localStorage = page.sm.ls
        /\ idCounter = page.counter
        /\ now = 1
        /\ dom = page.tv.dom
        /\ expandedNodes = page.tv.expandedNodes
        /\ searchQuery = page.tv.searchQuery
        /\ filteredNodes = page.tv.filteredNodes
        /\ selectedNode = Null
        /\ viewer = Null
        /\ editor = page.editor
        /\ backupTimer = page.timer
        /\ search = newSearchController(Null)
        /\ last = NoLast

(***************************************************************************)
(* The handlers.  While the editor's modal is open the pointer reaches the *)
(* modal only, so the handlers of the tree and of the application's        *)
(* buttons wait for it to close; the keyboard and the timers do not.       *)
(***************************************************************************)

\* refreshComponents(): tree.refresh(); the viewer only draws its instance again
refreshComponents(tv, sm) == render(tv, sm)

\* click, Enter or an arrow key on a record node: selectNode(node)
TreeSelectPrompt(path, id) ==
    /\ ~editor.open
    /\ path \in DOMAIN dom /\ id \in DOMAIN dom[path].kids
    /\ Commit(SM, TV, idCounter, PromptNode(id), showPrompt(prompts, id), editor,
              [NoLast EXCEPT !.op = "selectPrompt", !.id = id, !.path = path])

\* the same on a category node
TreeSelectCategory(path) ==
    /\ ~editor.open
    /\ path \in DOMAIN dom
    /\ Commit(SM, TV, idCounter, CategoryNode(path), viewer, editor,
              [NoLast EXCEPT !.op = "selectCategory", !.path = path])

\* deletePrompt(promptId), from the Delete key on a record node
TreeDeletePrompt(id, confirmed) ==
    /\ ~editor.open
    /\ id \in RenderedIds(dom)
    /\ LET existed == id \in DOMAIN prompts
           wasSelected == /\ selectedNode # Null
                          /\ selectedNode[1].type = "prompt"
                          /\ selectedNode[1].id = id
           l == [NoLast EXCEPT !.op = "treeDelete", !.id = id, !.existed = existed,
                               !.confirmed = confirmed, !.ok = existed /\ confirmed]
       IN  IF existed /\ confirmed
           THEN \E removed \in {saveFavorites(savePrompts(
                                    [SM EXCEPT !.prompts = MapDelete(prompts, id),
                                               !.favorites = favorites \ {id}]))} :
                \E r \in {render(TV, removed)} :
                   Commit(r.sm, r.tv, idCounter,
                          IF wasSelected THEN Null ELSE selectedNode,
                          IF wasSelected THEN showWelcomeScreen
                          ELSE DetachViewer(viewer, prompts, {id}),
                          DetachEditor(editor, {id}), l)
           ELSE Commit(SM, TV, idCounter, selectedNode, viewer, editor, l)

\* the context menu of a record node (which selects the node), then 'Duplica':
\* duplicatePrompt(promptId)
TreeDuplicatePrompt(path, id) ==
    /\ ~editor.open
    /\ path \in DOMAIN dom /\ id \in DOMAIN dom[path].kids
    /\ id \in DOMAIN prompts
    /\ idCounter < MaxIds
    /\ \E duplicated \in {clone(prompts[id], generateId(idCounter + 1))} :
       \E stored \in {savePrompts([SM EXCEPT !.prompts =
                          MapSet(prompts, duplicated.p.id, duplicated.p)])} :
       \E r \in {render(TV, stored)} :
       \E l \in {[NoLast EXCEPT !.op = "duplicate", !.id = id, !.existed = TRUE,
                                 !.ok = duplicated.ok, !.thrown = ~duplicated.ok]} :
          IF duplicated.ok
          THEN Commit(r.sm, r.tv, idCounter + 1, PromptNode(id),
                      showPrompt(prompts, id), editor, l)
          ELSE Commit(SM, TV, idCounter + 1, PromptNode(id),
                      showPrompt(prompts, id), editor, l)

\* what a favorite toggle finds: the favorites set, and the favorites bucket of
\* the tree built from the records
FavoritesBefore(sm) ==
    Some([favorites |-> sm.favorites, bucket |-> buildTreeStructure(sm).favorites])

\* the context menu of a record node, then the favorite item:
\* toggleFavorite(promptId) of the tree
TreeToggleFavorite(path, id) ==
    /\ ~editor.open
    /\ path \in DOMAIN dom /\ id \in DOMAIN dom[path].kids
    /\ id \in DOMAIN prompts
    /\ \E updated \in {update(prompts[id], [isFavorite |-> ~prompts[id].isFavorite])} :
       \E assigned \in {[SM EXCEPT !.prompts = MapSet(prompts, id, updated.p)]} :
       \E stored \in {saveFavorites(savePrompts(
                         [assigned EXCEPT !.favorites =
                             IF updated.p.isFavorite THEN favorites \cup {id}
                             ELSE favorites \ {id}]))} :
       \E r \in {render(TV, stored)} :
       \E l \in {[NoLast EXCEPT !.op = "treeToggleFavorite", !.id = id,
                                 !.existed = TRUE, !.ok = updated.ok,
                                 !.thrown = ~updated.ok,
                                 !.before = FavoritesBefore(SM)]} :
          IF updated.ok
          THEN Commit(r.sm, r.tv, idCounter, PromptNode(id),
                      showPrompt(prompts, id), editor, l)
          ELSE Commit(assigned, TV, idCounter, PromptNode(id),
                      showPrompt(prompts, id), editor, l)

\* handleDrop(e): a record node dropped on a category node, then the
\* 'prompt-moved' listener, which renders once more
TreeDrop(id, target) ==
    /\ ~editor.open
    /\ id \in RenderedIds(dom)
    /\ target \in DOMAIN dom
    /\ \E l \in {[NoLast EXCEPT !.op = "drop", !.id = id, !.path = target,
                                 !.existed = id \in DOMAIN prompts]} :
          IF id \notin DOMAIN prompts
          THEN Commit(SM, TV, idCounter, selectedNode, viewer, editor, l)
          ELSE \E updated \in {update(prompts[id], [category |-> target])} :
               \E assigned \in {[SM EXCEPT !.prompts = MapSet(prompts, id, updated.p)]} :
                  IF ~updated.ok
                  THEN Commit(assigned, TV, idCounter, selectedNode, viewer, editor,
                              [l EXCEPT !.thrown = TRUE])
                  ELSE \E r1 \in {render(TV, savePrompts(assigned))} :
                       \E r2 \in {render(r1.tv, r1.sm)} :
                          Commit(r2.sm, r2.tv, idCounter, selectedNode, viewer, editor,
                                 [l EXCEPT !.ok = TRUE])

\* deleteCurrentPrompt() of the viewer (its button or the Delete key), then the
\* 'prompt-deleted' listener
ViewerDelete(confirmed) ==
    /\ viewer # Null
    /\ \E id \in {viewer[1].id} :
       \E l \in {[NoLast EXCEPT !.op = "viewerDelete", !.id = id,
                                 !.existed = id \in DOMAIN prompts,
                                 !.confirmed = confirmed, !.ok = confirmed]} :
          IF confirmed
          THEN \E removed \in {saveFavorites(savePrompts(
                                   [SM EXCEPT !.prompts = MapDelete(prompts, id),
                                              !.favorites = favorites \ {id}]))} :
               \E r \in {render(TV, removed)} :
                  Commit(r.sm, r.tv, idCounter, selectedNode, showWelcomeScreen,
                         DetachEditor(editor, {id}), l)
          ELSE Commit(SM, TV, idCounter, selectedNode, viewer, editor, l)

\* toggleFavorite() of the viewer, then the 'prompt-updated' listeners: the
\* viewer shows the stored record of that id again and the tree is rendered
ViewerToggleFavorite ==
    /\ viewer # Null
    /\ \E id \in {viewer[1].id} :
       \E newFavoriteStatus \in {~CurrentPrompt(viewer, prompts).isFavorite} :
       \E updated \in {update(CurrentPrompt(viewer, prompts),
                               [isFavorite |-> newFavoriteStatus])} :
       \E assigned \in {IF viewer[1].live
                         THEN [SM EXCEPT !.prompts = MapSet(prompts, id, updated.p)]
                         ELSE SM} :
       \E held \in {IF viewer[1].live THEN viewer
                     ELSE Some([viewer[1] EXCEPT !.obj = Some(updated.p)])} :
       \E l \in {[NoLast EXCEPT !.op = "viewerToggleFavorite", !.id = id,
                                 !.existed = id \in DOMAIN prompts,
                                 !.ok = updated.ok, !.thrown = ~updated.ok,
                                 !.before = FavoritesBefore(SM)]} :
          IF updated.ok
          THEN \E stored \in {saveFavorites(savePrompts(
                                  [assigned EXCEPT !.favorites =
                                      IF newFavoriteStatus THEN favorites \cup {id}
                                      ELSE favorites \ {id}]))} :
               \E r \in {render(TV, stored)} :
                  Commit(r.sm, r.tv, idCounter, selectedNode,
                         showPrompt(stored.prompts, id), editor, l)
          ELSE Commit(assigned, TV, idCounter, selectedNode, held, editor, l)

\* a click on the toggle of a category node, or a double click on the node
TreeToggleNode(path) ==
    /\ ~editor.open
    /\ path \in DOMAIN dom
    /\ \E r \in {toggleNode(TV, SM, path)} :
          Commit(r.sm, r.tv, idCounter, selectedNode, viewer, editor,
                 [NoLast EXCEPT !.op = "toggleNode", !.path = path, !.ok = TRUE])

\* the expand-all button
TreeExpandAll ==
    /\ ~editor.open
    /\ \E r \in {expandAll(TV, SM)} :
          Commit(r.sm, r.tv, idCounter, selectedNode, viewer, editor,
                 [NoLast EXCEPT !.op = "expandAll", !.ok = TRUE])

\* the collapse-all button
TreeCollapseAll ==
    /\ ~editor.open
    /\ \E r \in {collapseAll(TV, SM)} :
          Commit(r.sm, r.tv, idCounter, selectedNode, viewer, editor,
                 [NoLast EXCEPT !.op = "collapseAll", !.ok = TRUE])

\* newPrompt(category): the add button, Ctrl+N or the context menu of a category
EditorNewPrompt(category) ==
    /\ ~editor.open
    /\ category = <<>> \/ category \in DOMAIN dom
    /\ Commit(SM, TV, idCounter, selectedNode, viewer,
              [editor EXCEPT
                  !.open = TRUE, !.cur = Null, !.isEditing = FALSE, !.isDirty = FALSE,
                  !.form = [EmptyForm EXCEPT
                               !.category = SelectValue(editor.options, category, <<>>),
                               !.version = DefaultVersion]],
              [NoLast EXCEPT !.op = "newPrompt", !.path = category])

\* Ctrl+N while the focus is on no input and no textarea, also on a select or a
\* button of the open editor: createNewPrompt() calls newPrompt('')
KeyboardNewPrompt ==
    \E category \in {SelectValue(editor.options, <<>>, <<>>)} :
       Commit(SM, TV, idCounter, selectedNode, viewer,
              [editor EXCEPT
                  !.open = TRUE, !.cur = Null, !.isEditing = FALSE, !.isDirty = FALSE,
                  !.form = [EmptyForm EXCEPT !.category = category,
                                             !.version = DefaultVersion]],
              [NoLast EXCEPT !.op = "ctrlN"])

\* editPrompt(promptId): a double click on a record node, its context menu, or
\* the viewer's edit button
EditorEditPrompt(id) ==
    /\ ~editor.open
    /\ (id \in RenderedIds(dom)) \/ (viewer # Null /\ viewer[1].id = id)
    /\ LET existed == id \in DOMAIN prompts
           l == [NoLast EXCEPT !.op = "editPrompt", !.id = id, !.existed = existed,
                               !.ok = existed]
       IN  IF ~existed
           THEN Commit(SM, TV, idCounter, selectedNode, viewer, editor, l)
           ELSE Commit(SM, TV, idCounter, selectedNode, viewer,
                       [editor EXCEPT
                           !.open = TRUE, !.cur = Some([id |-> id, live |-> TRUE]),
                           !.isEditing = TRUE, !.isDirty = FALSE,
                           !.form = populateForm(prompts[id], editor.options)],
                       l)

\* the user types: the form takes a content and the 'input' listener marks it
EditorInput(form) ==
    /\ editor.open
    /\ form.category \in (editor.options \cup {<<>>})
    /\ Commit(SM, TV, idCounter, selectedNode, viewer,
              [editor EXCEPT !.form = form, !.isDirty = TRUE],
              [NoLast EXCEPT !.op = "input"])

\* save(): submit, Ctrl+S or Ctrl+Enter; confirmed answers the question close()
\* asks when the form is dirty.  The branch taken is the one of the code: the
\* form is refused, an existing record is updated, or a new one is created
\* and, through the 'prompt-created' listener, selected.
EditorSave(confirmed) ==
    /\ editor.open
    /\ (editor.isEditing /\ editor.cur # Null) \/ idCounter < MaxIds
    /\ \E formData \in {collectFormData(editor.form)} :
       \E base \in {[NoLast EXCEPT !.op = "save", !.confirmed = confirmed]} :
          IF ~validateForm(editor.form)
          THEN Commit(SM, TV, idCounter, selectedNode, viewer, editor, base)
          ELSE IF editor.isEditing /\ editor.cur # Null
          THEN \E id \in {editor.cur[1].id} :
               \E updated \in {IF editor.cur[1].live THEN update(prompts[id], formData)
                                ELSE [ok |-> TRUE, p |-> formData]} :
               \E assigned \in {IF editor.cur[1].live
                                 THEN [SM EXCEPT !.prompts = MapSet(prompts, id, updated.p)]
                                 ELSE SM} :
               \E l \in {[base EXCEPT !.id = id, !.existed = id \in DOMAIN prompts,
                                       !.ok = updated.ok, !.thrown = ~updated.ok]} :
                  IF ~updated.ok
                  THEN Commit(assigned, TV, idCounter, selectedNode, viewer, editor, l)
                  ELSE \E saved \in {savePrompts(assigned)} :
                       \E stored \in {saveFavorites(
                                         [saved EXCEPT !.favorites =
                                             IF formData.isFavorite
                                             THEN favorites \cup {id}
                                             ELSE favorites \ {id}])} :
                       \E r \in {render(TV, stored)} :
                          Commit(r.sm, r.tv, idCounter, selectedNode,
                                 IF viewer # Null /\ viewer[1].id = id
                                 THEN showPrompt(stored.prompts, id) ELSE viewer,
                                 close(editor, confirmed),
                                 [l EXCEPT !.events = {"prompt-updated"}])
          ELSE \E made \in {Prompt(formData, generateId(idCounter + 1))} :
               \E l \in {[base EXCEPT !.id = made.p.id, !.ok = made.ok,
                                       !.thrown = ~made.ok]} :
                  IF ~made.ok
                  THEN Commit(SM, TV, idCounter + 1, selectedNode, viewer, editor, l)
                  ELSE \E added \in {savePrompts([SM EXCEPT !.prompts =
                                         MapSet(prompts, made.p.id, made.p)])} :
                       \E stored \in {IF formData.isFavorite
                                       THEN saveFavorites([added EXCEPT !.favorites =
                                               favorites \cup {made.p.id}])
                                       ELSE added} :
                       \E r \in {render(TV, stored)} :
                       \E s \in {selectPromptById(r.tv, r.sm, selectedNode, viewer,
                                                   made.p.id)} :
                          Commit(s.sm, s.tv, idCounter + 1, s.sel, s.v,
                                 close(editor, confirmed),
                                 [l EXCEPT !.events = {"prompt-created"}])

\* close(): the close and cancel buttons, the backdrop, Escape
EditorClose(confirmed) ==
    /\ editor.open
    /\ Commit(SM, TV, idCounter, selectedNode, viewer, close(editor, confirmed),
              [NoLast EXCEPT !.op = "close", !.confirmed = confirmed,
                             !.ok = ~editor.isDirty \/ confirmed])

\* what an import file lists as records
Incoming(text, format) ==
    LET parsed == ParseImport(text, format)
    IN  IF parsed.throws \/ parsed.value = Null THEN <<>>
        ELSE IF Has(parsed.value[1], "prompts") THEN parsed.value[1].prompts
        ELSE <<>>

\* what last holds after an import
ImportLast(op, text, format, merge, done) ==
    [NoLast EXCEPT !.op = op, !.format = format, !.merge = merge,
                   !.thrown = done.thrown, !.ok = ~done.thrown,
                   !.incoming = Incoming(text, format),
                   !.imported = done.result.imported,
                   !.skipped = done.result.skipped,
                   !.errors = done.result.errors]

\* importData() of the application: the chosen file is read, imported with
\* merge = true, and the components are refreshed unless the import threw
AppImportData(text, format) ==
    /\ ~editor.open
    /\ format \in {"json", "yaml"}
    /\ \E done \in {importData(SM, idCounter, text, format, TRUE)} :
       \E l \in {ImportLast("appImport", text, format, TRUE, done)} :
          /\ done.counter <= MaxIds
          /\ IF done.thrown
             THEN Commit(done.sm, TV, done.counter, selectedNode, viewer, editor, l)
             ELSE \E r \in {refreshComponents(TV, done.sm)} :
                     Commit(r.sm, r.tv, done.counter, selectedNode, viewer, editor, l)

\* storage.importData(data, format, merge) called on its own
StorageImportData(text, format, merge) ==
    /\ \E done \in {importData(SM, idCounter, text, format, merge)} :
       \E cleared \in {IF ~merge /\ ~ParseImport(text, format).throws
                        THEN DOMAIN prompts ELSE {}} :
          /\ done.counter <= MaxIds
          /\ Commit(done.sm, TV, done.counter, selectedNode,
                    DetachViewer(viewer, prompts, cleared),
                    DetachEditor(editor, cleared),
                    ImportLast("importData", text, format, merge, done))

\* createBackup() from the settings panel
AppCreateBackup ==
    /\ ~editor.open
    /\ \E saved \in {createBackup(SM, now)} :
          Commit(saved, TV, idCounter, selectedNode, viewer, editor,
                 [NoLast EXCEPT !.op = "createBackup", !.ok = TRUE,
                                !.hadBackups = Len(Backups(localStorage))])

\* createBackup() from the interval timer startAutoBackup() set
AutoBackup ==
    /\ backupTimer
    /\ \E saved \in {createBackup(SM, now)} :
          Commit(saved, TV, idCounter, selectedNode, viewer, editor,
                 [NoLast EXCEPT !.op = "autoBackup", !.ok = TRUE,
                                !.hadBackups = Len(Backups(localStorage))])

\* restoreBackup() of the application
AppRestoreBackup(confirmed) ==
    /\ ~editor.open
    /\ IF ~confirmed
       THEN Commit(SM, TV, idCounter, selectedNode, viewer, editor,
                   [NoLast EXCEPT !.op = "appRestore"])
       ELSE \E done \in {restoreFromBackup(SM, 0)} :
            \E replaced \in {IF Backups(localStorage) # <<>> THEN DOMAIN prompts
                              ELSE {}} :
            \E l \in {[NoLast EXCEPT !.op = "appRestore", !.confirmed = TRUE,
                                      !.ok = done.ok]} :
               IF ~done.ok
               THEN Commit(done.sm, TV, idCounter, selectedNode,
                           DetachViewer(viewer, prompts, replaced),
                           DetachEditor(editor, replaced), l)
               ELSE \E r \in {refreshComponents(TV, done.sm)} :
                       Commit(r.sm, r.tv, idCounter, selectedNode,
                              DetachViewer(viewer, prompts, replaced),
                              DetachEditor(editor, replaced), l)

\* storage.restoreFromBackup(backupIndex) called on its own
StorageRestoreFromBackup(backupIndex) ==
    /\ \E done \in {restoreFromBackup(SM, backupIndex)} :
       \E replaced \in {IF backupIndex >= 0 /\ backupIndex < Len(Backups(localStorage))
                         THEN DOMAIN prompts ELSE {}} :
          Commit(done.sm, TV, idCounter, selectedNode,
                 DetachViewer(viewer, prompts, replaced),
                 DetachEditor(editor, replaced),
                 [NoLast EXCEPT !.op = "restoreFromBackup", !.idx = backupIndex,
                                !.ok = done.ok])

\* the data is cleared without the question being asked
AppClearAllDataUnasked(confirmed) ==
    /\ ~editor.open
    /\ \E r \in {refreshComponents(TV, clearAll(SM))} :
          Commit(r.sm, r.tv, idCounter, selectedNode,
                 DetachViewer(viewer, prompts, DOMAIN prompts),
                 DetachEditor(editor, DOMAIN prompts),
                 [NoLast EXCEPT !.op = "clearAllData", !.confirmed = confirmed,
                                !.ok = TRUE])

\* folderName.trim().toLowerCase().replace(/[^a-z0-9\s-]/g, '').replace(/\s+/g, '-')
safeName(folderName) ==
    The({[i \in 1..Len(joined) |-> IF joined[i] \in WhiteSpace THEN "-" ELSE joined[i]] :
            joined \in {The({SelectSeq([i \in 1..Len(kept) |->
                                           IF i > 1 /\ kept[i] \in WhiteSpace
                                                    /\ kept[i - 1] \in WhiteSpace
                                           THEN "" ELSE kept[i]],
                                       LAMBDA c : c # "") :
                             kept \in {SelectSeq(toLowerCase(trim(folderName)),
                                                 LAMBDA c : \/ c \in {LowerCase[k] : k \in DOMAIN LowerCase}
                                                            \/ c \in Digits
                                                            \/ c \in WhiteSpace
                                                            \/ c = "-")}})}})

\* the names typed into the question of createNewFolder, and the strings that
\* the typed texts and their safe names spell
FolderNew == <<" ", "N", "e", "w", " ", " ", "1", "!">>
FolderGeneral == <<"G", "e", "n", "e", "r", "a", "l">>
FolderSigns == <<"!", "?">>
Spelled ==
    (FolderNew :> " New  1!") @@ (<<"n", "e", "w", "-", "1">> :> "new-1")
 @@ (FolderGeneral :> "General") @@ (<<"g", "e", "n", "e", "r", "a", "l">> :> "general")

\* createNewFolder(): folderName is what the user typed, empty when the
\* question was cancelled
AppCreateNewFolder(folderName) ==
    /\ ~editor.open
    /\ \E name \in {safeName(folderName)} :
       \E l \in {[NoLast EXCEPT !.op = "newFolder", !.incoming = name]} :
          IF folderName = <<>> \/ name = <<>> \/ <<Spelled[name]>> \in DOMAIN categories
          THEN Commit(SM, TV, idCounter, selectedNode, viewer, editor, l)
          ELSE \E saved \in {saveCategories(
                                [SM EXCEPT !.categories =
                                    MapSet(categories, <<Spelled[name]>>,
                                           [name |-> Spelled[folderName],
                                            icon |-> "folder", color |-> "#6b7280"])])} :
               \E r \in {render(TV, saved)} :
                  Commit(r.sm, r.tv, idCounter, selectedNode, viewer, editor,
                         [l EXCEPT !.ok = TRUE, !.path = <<Spelled[name]>>])

\* clearAllData() of the application
AppClearAllData(confirmed) ==
    /\ ~editor.open
    /\ IF confirmed
       THEN \E r \in {refreshComponents(TV, clearAll(SM))} :
               Commit(r.sm, r.tv, idCounter, selectedNode,
                      DetachViewer(viewer, prompts, DOMAIN prompts),
                      DetachEditor(editor, DOMAIN prompts),
                      [NoLast EXCEPT !.op = "clearAllData", !.confirmed = TRUE,
                                     !.ok = TRUE])
       ELSE Commit(SM, TV, idCounter, selectedNode, viewer, editor,
                   [NoLast EXCEPT !.op = "clearAllData"])

\* performSearch(query), when the debounce timer fires or on Enter; query is
\* the trimmed content of the search box
PerformSearch(query) ==
    /\ query = trim(query)
    /\ \E r \in {IF query = <<>> THEN [tv |-> clearSearchFilter(TV, SM), sm |-> SM]
                  ELSE applySearchFilter(TV, SM, query)} :
          Commit(r.sm, r.tv, idCounter, selectedNode, viewer, editor,
                 [NoLast EXCEPT !.op = "search", !.query = query, !.ok = TRUE])

\* the current query is kept
clearSearchKeepsQuery(s) ==
    [s EXCEPT !.input = <<>>, !.timers = clearTimeout(s.timers, s.searchTimeout)]

\* clearSearch(), what it does to the controller: the box and the current
\* query are emptied, the pending timer is cleared
clearSearch(s) ==
    [s EXCEPT !.input = <<>>, !.currentQuery = <<>>,
              !.timers = clearTimeout(s.timers, s.searchTimeout)]

\* clearSearch(): the clear button, Escape in the search box, or Escape elsewhere
\* while a query is current
ClearSearch ==
    /\ \E tv \in {clearSearchFilter(TV, SM)} :
          CommitSearch(SM, tv, selectedNode, viewer, clearSearch(search),
                       [NoLast EXCEPT !.op = "clearSearch", !.ok = TRUE,
                                      !.query = search.currentQuery,
                                      !.before = Some([searchTimeout |-> search.timers # {},
                                                       searchQuery |-> searchQuery])])

\* 'beforeunload': the StorageManager listener (createBackup), the editor's
\* (a dirty open form asks to stay), the application's (saveAll, createBackup).
\* Unless the user stays, the page goes and the next session starts from
\* localStorage.
BeforeUnload(stay) ==
    /\ stay => (editor.open /\ editor.isDirty)
    /\ \E first \in {createBackup(SM, now)} :
       \E saved \in {saveAll(first)} :
       \E left \in {createBackup(saved, now)} :
       \E l \in {[NoLast EXCEPT !.op = "beforeunload", !.confirmed = stay,
                                 !.ok = ~stay,
                                 !.hadBackups = Len(Backups(localStorage))]} :
          IF stay
          THEN Commit(left, TV, idCounter, selectedNode, viewer, editor, l)
          ELSE \E page \in {PageLoad(left.ls, idCounter)} :
                  /\ page.counter <= MaxIds
                  /\ prompts' = page.sm.prompts
                  /\ categories' = page.sm.categories
                  /\ favorites' = page.sm.favorites
                  /\ settings' = page.sm.settings
                  /\ localStorage' = page.sm.ls
                  /\ dom' = page.tv.dom
                  /\ expandedNodes' = page.tv.expandedNodes
                  /\ searchQuery' = page.tv.searchQuery
                  /\ filteredNodes' = page.tv.filteredNodes
                  /\ idCounter' = page.counter
                  /\ selectedNode' = Null
                  /\ viewer' = Null
                  /\ editor' = page.editor
                  /\ backupTimer' = page.timer
                  /\ search' = newSearchController(search.stored)
                  /\ last' = l
                  /\ UNCHANGED now

\* the clock advances
Tick ==
    /\ now < MaxTime
    /\ now' = now + 1
    /\ last' = [NoLast EXCEPT !.op = "tick"]
    /\ UNCHANGED <<prompts, categories, favorites, settings, localStorage, idCounter,
                   dom, expandedNodes, searchQuery, filteredNodes, selectedNode,
                   viewer, editor, backupTimer, search>>

(***************************************************************************)
(* Inputs                                                                  *)
(***************************************************************************)
TitleNew == <<"N", "e", "w">>
TitleOther == <<"O", "t", "h", "e", "r">>
BodyNew == <<"b", "o", "d", "y">>
QueryJava == <<"j", "a", "v", "a">>
QueryUpper == <<"R", "E", "C", "R", "U", "I", "T">>
QueryNothing == <<"z", "z", "z">>

P1 == generateId(1)
ExtId == <<"ext", 1>>

\* what the user may have typed into the form
FormInputs ==
    {[EmptyForm EXCEPT !.title = t, !.prompt = BodyNew, !.version = v,
                       !.category = c, !.isFavorite = f] :
        t \in {TitleNew, <<>>}, v \in {DefaultVersion, <<>>},
        c \in {<<>>, <<"general">>}, f \in BOOLEAN}

\* records of an import file
IncomingValid(id, title, category, fav) ==
    [id |-> id, title |-> title, type |-> "code", prompt |-> BodyNew,
     category |-> category, isFavorite |-> fav]
IncomingInvalid(id) ==
    [id |-> id, title |-> <<>>, type |-> "code", prompt |-> BodyNew]
IncomingNoId ==
    [title |-> TitleNew, type |-> "code", prompt |-> BodyNew]

\* a text JSON.parse accepts (the YAML parser too: JSON is YAML), one only the
\* YAML parser accepts, one neither accepts, and the text "null"
JsonText(object) ==
    [json |-> [throws |-> FALSE, value |-> Some(object)],
     yaml |-> [throws |-> FALSE, value |-> Some(object)]]
YamlText(object) ==
    [json |-> [throws |-> TRUE, value |-> Null],
     yaml |-> [throws |-> FALSE, value |-> Some(object)]]
GarbageText ==
    [json |-> [throws |-> TRUE, value |-> Null],
     yaml |-> [throws |-> TRUE, value |-> Null]]
NullText ==
    [json |-> [throws |-> FALSE, value |-> Null],
     yaml |-> [throws |-> FALSE, value |-> Null]]

(***************************************************************************)
(* Other tabs and damaged storage                                          *)
(***************************************************************************)
\* a StorageManager constructed over the store ls, before loadData()
NewStorage(ls) ==
    [prompts |-> EmptyMap, categories |-> EmptyMap, favorites |-> {},
     settings |-> EmptyMap, ls |-> ls]

\* What another tab of the application, which has loaded the store, leaves in
\* the store when its user deletes record id (deletePrompt), retitles it
\* (update, savePrompts) or wipes all data (clearAll).
OtherTabWrites(ls, kind, id) ==
    The({IF kind = "delete"
         THEN saveFavorites(savePrompts([other EXCEPT
                                            !.prompts = MapDelete(@, id),
                                            !.favorites = @ \ {id}])).ls
         ELSE IF kind = "edit"
         THEN savePrompts([other EXCEPT
                             !.prompts = MapSet(@, id,
                                 update(other.prompts[id], [title |-> TitleOther]).p)]).ls
         ELSE clearAll(other).ls :
         other \in {loadData(NewStorage(ls))}})

\* the records a store holds in its PROMPTS slot
StoredIds(ls) ==
    IF getFromStorage(ls, "PROMPTS") = Null THEN {}
    ELSE DOMAIN getFromStorage(ls, "PROMPTS")[1]

\* The 'storage' event of a write by another tab: handleStorageChange (loadData,
\* then the 'storagechange' event), and that event's listeners in the order
\* they were added: the tree renders, the search controller searches again
\* when a query is active, the application refreshes its components.
StorageChange(kind, id) ==
    /\ kind \in {"delete", "edit", "clearAll"}
    /\ kind # "clearAll" => id \in StoredIds(localStorage)
    /\ \E written \in {OtherTabWrites(localStorage, kind, id)} :
       \E loaded \in {loadData([SM EXCEPT !.ls = written])} :
       \E replaced \in {IF getFromStorage(written, "PROMPTS") # Null
                         THEN DOMAIN prompts ELSE {}} :
       \E r1 \in {render(TV, loaded)} :
       \E r2 \in {IF search.currentQuery # <<>>
                   THEN applySearchFilter(r1.tv, r1.sm, search.currentQuery) ELSE r1} :
       \E r3 \in {refreshComponents(r2.tv, r2.sm)} :
          Commit(r3.sm, r3.tv, idCounter, selectedNode,
                 DetachViewer(viewer, prompts, replaced),
                 DetachEditor(editor, replaced),
                 [NoLast EXCEPT !.op = "storageChange", !.id = id, !.ok = TRUE,
                                !.query = <<kind>>, !.events = {"storagechange"}])

\* the identifiers generateId may have produced once a damaged store is loaded
\* (the sample records are created again when no record could be read)
MaxLoadIds == 6

\* the store with the slots in keys made unreadable
Damaged(ls, keys) == [k \in STORAGE_KEYS |-> IF k \in keys THEN Corrupt ELSE ls[k]]

\* The page is left ('beforeunload': createBackup, saveAll, createBackup), the
\* slots in keys are damaged while it is away, and the page is opened again.
\* last.loaded is what the StorageManager holds when its constructor returns.
CorruptedLoad(keys) ==
    /\ keys # {}
    /\ \E first \in {createBackup(SM, now)} :
       \E saved \in {saveAll(first)} :
       \E left \in {createBackup(saved, now)} :
       \E damaged \in {Damaged(left.ls, keys)} :
       \E sm0 \in {loadData(NewStorage(damaged))} :
       \E page \in {PageLoad(damaged, idCounter)} :
          /\ page.counter <= MaxLoadIds
          /\ prompts' = page.sm.prompts
          /\ categories' = page.sm.categories
          /\ favorites' = page.sm.favorites
          /\ settings' = page.sm.settings
          /\ localStorage' = page.sm.ls
          /\ dom' = page.tv.dom
          /\ expandedNodes' = page.tv.expandedNodes
          /\ searchQuery' = page.tv.searchQuery
          /\ filteredNodes' = page.tv.filteredNodes
          /\ idCounter' = page.counter
          /\ selectedNode' = Null
          /\ viewer' = Null
          /\ editor' = page.editor
          /\ backupTimer' = page.timer
          /\ search' = newSearchController(search.stored)
          /\ last' = [NoLast EXCEPT
                        !.op = "corruptedLoad", !.ok = TRUE,
                        !.hadBackups = Len(Backups(damaged)),
                        !.loaded = Some([prompts |-> sm0.prompts,
                                         categories |-> sm0.categories,
                                         favorites |-> sm0.favorites,
                                         settings |-> sm0.settings,
                                         slots |-> keys,
                                         backups |-> Backups(damaged)])]
          /\ UNCHANGED now

(***************************************************************************)
(* The YAML form of a record.  A YAML document is kept as the sequence of  *)
(* its entries, each a key, the style of its scalar and the value written. *)
(***************************************************************************)
YamlKeys == <<"title", "type", "prompt", "negative_prompt", "model", "author",
              "tags", "notes", "version", "created", "modified">>

\* value === '' || (Array.isArray(value) && value.length === 0)
EmptyValue(key, value) ==
    IF key = "type" THEN value = ""
    ELSE IF key \in {"created", "modified"} THEN value = 0
    ELSE value = <<>>

\* the object toYAML() hands to jsyaml.dump: the listed fields without those
\* that are '' or []
yamlData(p) ==
    [k \in {YamlKeys[i] : i \in {j \in 1..Len(YamlKeys) :
                                     ~EmptyValue(YamlKeys[j], p[YamlKeys[j]])}} |-> p[k]]

\* a string a plain scalar would not read back as a string: a number or a date
Ambiguous(key, value) ==
    \/ key \in {"created", "modified"}
    \/ key \notin {"type", "tags"} /\ value # <<>>
         /\ \A i \in 1..Len(value) : value[i] \in Digits \cup {"."}

\* jsyaml.dump(object): an entry for each key, in the order of the keys; a
\* string that would be read as another type is written in quotes
RECURSIVE jsyamlDump(_, _)
jsyamlDump(object, keys) ==
    IF keys = <<>> THEN <<>>
    ELSE The({(IF k \in DOMAIN object
               THEN <<[key |-> k,
                       style |-> IF Ambiguous(k, object[k]) THEN "quoted" ELSE "plain",
                       value |-> object[k]]>>
               ELSE <<>>) \o jsyamlDump(object, Tail(keys)) :
              k \in {Head(keys)}})

\* jsyaml.load(document): the object of the entries; a plain scalar that reads as
\* a number is a number, which is no text
jsyamlLoad(document) ==
    [k \in {document[i].key : i \in DOMAIN document} |->
        The({IF e.style = "plain" /\ Ambiguous(k, e.value) THEN <<"number", e.value>>
             ELSE e.value :
             e \in {document[CHOOSE i \in DOMAIN document : document[i].key = k]}})]

toYAML(p) == jsyamlDump(yamlData(p), YamlKeys)

\* Prompt.fromYAML(yamlString, metadata): new Prompt({...data, ...metadata})
fromYAML(yamlString, metadata, newId) ==
    Prompt(Spread(jsyamlLoad(yamlString), metadata), newId)

\* a caller serializes a stored record and parses the text back, with no metadata
YamlRoundTrip(id) ==
    /\ id \in DOMAIN prompts
    /\ idCounter < MaxIds
    /\ \E back \in {fromYAML(toYAML(prompts[id]), EmptyMap, generateId(idCounter + 1))} :
          Commit(SM, TV, idCounter + 1, selectedNode, viewer, editor,
                 [NoLast EXCEPT !.op = "yamlRoundTrip", !.id = id, !.existed = TRUE,
                                !.ok = back.ok, !.thrown = ~back.ok,
                                !.loaded = Some(back.p)])

\* prompt.update(data) called on a stored record: the assignments are made on
\* the instance the collection holds, whether validate() then throws or not
PromptUpdate(id, data) ==
    /\ id \in DOMAIN prompts
    /\ \E updated \in {update(prompts[id], data)} :
          Commit([SM EXCEPT !.prompts = MapSet(prompts, id, updated.p)], TV, idCounter,
                 selectedNode, viewer, editor,
                 [NoLast EXCEPT !.op = "update", !.id = id, !.existed = TRUE,
                                !.ok = updated.ok, !.thrown = ~updated.ok])

(***************************************************************************)
(* SearchController: the search box, its debounce timer and its history    *)
(***************************************************************************)
\* performSearch(query): what it does to the tree
performSearch(tv, sm, query) ==
    IF query = <<>> THEN [tv |-> clearSearchFilter(tv, sm), sm |-> sm]
    ELSE applySearchFilter(tv, sm, query)

\* searchHistory.includes(query)
HistoryIncludes(history, query) == \E i \in 1..Len(history) : history[i] = query

\* addToSearchHistory(query): the controller after it (the history is saved
\* only when the query was added)
addToSearchHistory(s, query) ==
    IF query = <<>> \/ HistoryIncludes(s.searchHistory, query) THEN s
    ELSE The({[s EXCEPT !.searchHistory = added, !.stored = Some(added)] :
                added \in {Slice(<<query>> \o s.searchHistory, maxHistoryItems)}})

\* the 'input' event of the search box: handleSearchInput(value)
\* handleSearchInput(query) that leaves the pending timer running
handleSearchInputKeepsTimer(s, value) ==
    The({[s EXCEPT !.input = value, !.currentQuery = trim(value),
                   !.timers = s.timers \cup {id}, !.searchTimeout = Some(id)] :
            id \in {setTimeout(s.timers)}})

\* handleSearchInput(query): the fields of the controller afterwards
handleSearchInput(s, value) ==
    The({The({[s EXCEPT !.input = value, !.currentQuery = trim(value),
                        !.timers = cleared \cup {id}, !.searchTimeout = Some(id)] :
                 id \in {setTimeout(cleared)}}) :
            cleared \in {clearTimeout(s.timers, s.searchTimeout)}})

SearchInput(value) ==
    /\ ~editor.open
    /\ Cardinality(search.timers) < MaxTimers
    /\ CommitSearch(SM, TV, selectedNode, viewer, handleSearchInput(search, value),
                    [NoLast EXCEPT !.op = "searchInput", !.query = trim(value)])

\* the debounce timer fires: performSearch(this.currentQuery)
SearchTimeout ==
    \E id \in search.timers :
       \E r \in {performSearch(TV, SM, search.currentQuery)} :
          CommitSearch(r.sm, r.tv, selectedNode, viewer,
                       [search EXCEPT !.timers = @ \ {id}],
                       [NoLast EXCEPT !.op = "searchTimeout", !.ok = TRUE,
                                      !.query = search.currentQuery,
                                      !.events = IF search.currentQuery = <<>> THEN {}
                                                 ELSE {"search-performed"}])

\* the record nodes navigateToResults() may find first: the model keeps no
\* order of the nodes, so any record node that is displayed
VisiblePromptNodes(d) ==
    UNION {{id \in DOMAIN d[p].kids : d[p].kids[id].display} : p \in DOMAIN d}

\* Enter in the search box: executeSearch(), whose navigateToResults() clicks
\* the first record node that is displayed
SearchEnter ==
    /\ ~editor.open
    /\ \E query \in {search.currentQuery} :
       \E r \in {performSearch(TV, SM, query)} :
       \E s \in {addToSearchHistory(
                       [search EXCEPT !.timers = clearTimeout(@, search.searchTimeout)],
                       query)} :
       \E l \in {[NoLast EXCEPT !.op = "executeSearch", !.ok = TRUE, !.query = query,
                                 !.events = IF query = <<>> THEN {}
                                            ELSE {"search-performed"}]} :
          IF VisiblePromptNodes(r.tv.dom) = {}
          THEN CommitSearch(r.sm, r.tv, selectedNode, viewer, s, l)
          ELSE \E first \in VisiblePromptNodes(r.tv.dom) :
                  CommitSearch(r.sm, r.tv, PromptNode(first),
                               showPrompt(r.sm.prompts, first), s,
                               [l EXCEPT !.id = first])

(***************************************************************************)
(* A store that rejects writes with QuotaExceededError.                    *)
(***************************************************************************)
\* the number of nested saveToStorage calls the call stack has room for
MaxStack == 3

\* saveToStorage(key, data) at call depth `depth` on a store that rejects the
\* next `rejects` writes, or every write when `always`: the catch block calls
\* handleStorageError, which calls cleanupOldBackups, which calls
\* saveToStorage for the trimmed backup list, and then shows the warning.
\* The result counts the setItem calls and the warnings, and tells whether
\* the calls ran out of stack.
RECURSIVE saveToStorageRejecting(_, _, _, _, _, _)
saveToStorageRejecting(ls, key, data, rejects, always, depth) ==
    IF depth > MaxStack
    THEN [ls |-> ls, writes |-> 0, warnings |-> 0, overflow |-> TRUE]
    ELSE IF ~always /\ rejects = 0
    THEN [ls |-> saveToStorage(ls, key, data), writes |-> 1, warnings |-> 0,
          overflow |-> FALSE]
    ELSE The({[ls |-> r.ls, writes |-> r.writes + 1, warnings |-> r.warnings + 1,
               overflow |-> r.overflow] :
                 r \in {saveToStorageRejecting(
                           ls, "BACKUP", Slice(Backups(ls), MAX_BACKUPS \div 2),
                           IF always THEN rejects ELSE rejects - 1, always,
                           depth + 1)}})

\* savePrompts() on such a store.  When the calls run out of stack the
\* RangeError is raised either inside a try block, where it is caught and
\* every pending handleStorageError goes on to its warning, or inside a catch
\* block, from where it leaves savePrompts.
SavePromptsRejecting(rejects, always) ==
    /\ ~editor.open
    /\ \E r \in {saveToStorageRejecting(
                    localStorage, "PROMPTS",
                    [id \in DOMAIN prompts |-> toObject(prompts[id])],
                    rejects, always, 1)} :
       \E thrown \in IF r.overflow THEN BOOLEAN ELSE {FALSE} :
          Commit([SM EXCEPT !.ls = r.ls], TV, idCounter, selectedNode, viewer, editor,
                 [NoLast EXCEPT !.op = "savePrompts", !.ok = ~r.overflow,
                                !.thrown = thrown,
                                !.idx = IF always THEN MaxStack + 1 ELSE rejects,
                                !.hadBackups = Len(Backups(localStorage)),
                                !.writes = r.writes,
                                !.warnings = IF thrown THEN 0 ELSE r.warnings])

\* the import files of the full specification
WorkCategory == <<"work">> :> [name |-> "Work", icon |-> "folder", color |-> "#6b7280"]

ImportObjects ==
    {[prompts |-> <<IncomingValid(P1, TitleOther, <<>>, FALSE)>>],
     [prompts |-> <<IncomingInvalid(P1)>>],
     [prompts |-> <<IncomingValid(ExtId, TitleNew, <<>>, FALSE),
                    IncomingValid(ExtId, TitleOther, <<>>, FALSE)>>],
     [prompts |-> <<IncomingValid(ExtId, TitleNew, <<"unknown">>, FALSE)>>],
     [prompts |-> <<IncomingValid(ExtId, TitleNew, <<"unknown">>, TRUE)>>],
     [prompts |-> <<IncomingValid(ExtId, TitleNew, FAVORITES, FALSE)>>],
     [prompts |-> <<IncomingNoId>>],
     [favorites |-> {P1}],
     [prompts |-> <<IncomingValid(ExtId, TitleNew, <<"work">>, TRUE)>>,
      favorites |-> {ExtId}, categories |-> WorkCategory,
      settings |-> [theme |-> "dark"]]}

ImportTexts ==
    {GarbageText, NullText}
    \cup {JsonText(o) : o \in ImportObjects} \cup {YamlText(o) : o \in ImportObjects}

Queries == {<<>>, QueryJava, QueryUpper, QueryNothing}

MaxIndex == 5

Next ==
    \/ \E path \in DOMAIN dom : \E id \in DOMAIN dom[path].kids : TreeSelectPrompt(path, id)
    \/ \E path \in DOMAIN dom : TreeSelectCategory(path)
    \/ \E id \in RenderedIds(dom), confirmed \in BOOLEAN : TreeDeletePrompt(id, confirmed)
    \/ \E path \in DOMAIN dom : \E id \in DOMAIN dom[path].kids : TreeDuplicatePrompt(path, id)
    \/ \E path \in DOMAIN dom : \E id \in DOMAIN dom[path].kids : TreeToggleFavorite(path, id)
    \/ \E id \in RenderedIds(dom), target \in DOMAIN dom : TreeDrop(id, target)
    \/ \E confirmed \in BOOLEAN : ViewerDelete(confirmed)
    \/ ViewerToggleFavorite
    \/ \E category \in {<<>>} \cup DOMAIN dom : EditorNewPrompt(category)
    \/ \E id \in RenderedIds(dom) \cup {viewer[i].id : i \in DOMAIN viewer} :
          EditorEditPrompt(id)
    \/ \E form \in FormInputs : EditorInput(form)
    \/ \E confirmed \in BOOLEAN : EditorSave(confirmed)
    \/ \E confirmed \in BOOLEAN : EditorClose(confirmed)
    \/ \E text \in ImportTexts, format \in {"json", "yaml"} : AppImportData(text, format)
    \/ \E text \in ImportTexts, format \in {"auto", "json", "yaml", "xml"},
          merge \in BOOLEAN : StorageImportData(text, format, merge)
    \/ AppCreateBackup
    \/ AutoBackup
    \/ \E confirmed \in BOOLEAN : AppRestoreBackup(confirmed)
    \/ \E backupIndex \in (-1)..MaxIndex : StorageRestoreFromBackup(backupIndex)
    \/ \E confirmed \in BOOLEAN : AppClearAllData(confirmed)
    \/ \E query \in Queries : PerformSearch(query)
    \/ ClearSearch
    \/ \E stay \in BOOLEAN : BeforeUnload(stay)
    \/ Tick

Spec == Init /\ [][Next]_vars

(***************************************************************************)
(* The backup list: the three triggers of a backup, the clock, and one     *)
(* mutation so that the snapshots differ.                                  *)
(***************************************************************************)
NextBackupList ==
    \/ AppCreateBackup
    \/ AutoBackup
    \/ BeforeUnload(FALSE)
    \/ \E path \in DOMAIN dom : TreeToggleFavorite(path, P1)
    \/ Tick

SpecBackupList == Init /\ [][NextBackupList]_vars

(***************************************************************************)
(* Restoring: backups (at most MaxSnapshots are taken), restoreFromBackup  *)
(* with indexes inside and outside the list, and between them the          *)
(* mutations of one record: its favorite flag, its deletion, and an edit    *)
(* that leaves its version field empty.                                    *)
(***************************************************************************)
MaxSnapshots == 2

FormNoVersion ==
    [EmptyForm EXCEPT !.title = TitleNew, !.prompt = BodyNew, !.version = <<>>]

NextRestore ==
    \/ Len(Backups(localStorage)) < MaxSnapshots /\ AppCreateBackup
    \/ \E backupIndex \in (-1)..MaxSnapshots : StorageRestoreFromBackup(backupIndex)
    \/ \E path \in DOMAIN dom : TreeToggleFavorite(path, P1)
    \/ TreeDeletePrompt(P1, TRUE)
    \/ EditorEditPrompt(P1)
    \/ EditorInput(FormNoVersion)
    \/ EditorSave(TRUE)

SpecRestore == Init /\ [][NextRestore]_vars

(***************************************************************************)
(* The favorites set: the operations that create, edit, duplicate, delete, *)
(* favorite, move, import and restore, on the first sample record and on   *)
(* what is made from it.  The backup is the one taken as the session       *)
(* starts.                                                                 *)
(***************************************************************************)
FormFavorite ==
    [EmptyForm EXCEPT !.title = TitleNew, !.prompt = BodyNew,
                      !.version = DefaultVersion, !.isFavorite = TRUE]

FavoritesOnly == JsonText([favorites |-> {P1}])

NextFavorites ==
    \/ \E path \in DOMAIN dom : TreeSelectPrompt(path, P1)
    \/ TreeDeletePrompt(P1, TRUE)
    \/ \E path \in DOMAIN dom : TreeDuplicatePrompt(path, P1)
    \/ \E path \in DOMAIN dom : TreeToggleFavorite(path, P1)
    \/ TreeDrop(P1, <<"general">>)
    \/ ViewerDelete(TRUE)
    \/ ViewerToggleFavorite
    \/ EditorNewPrompt(<<>>)
    \/ EditorEditPrompt(P1)
    \/ EditorInput(FormFavorite)
    \/ EditorSave(TRUE)
    \/ AppImportData(FavoritesOnly, "json")
    \/ last.op = "init" /\ AppCreateBackup
    \/ AppRestoreBackup(TRUE)
    \/ AppClearAllData(TRUE)

SpecFavorites == Init /\ [][NextFavorites]_vars

(***************************************************************************)
(* The tree: records moved by a drop, imported with a category the store   *)
(* has not, favorited and deleted.                                         *)
(***************************************************************************)
P2 == generateId(2)

UnknownCategory ==
    JsonText([prompts |-> <<IncomingValid(ExtId, TitleNew, <<"unknown">>, FALSE)>>])

NextTree ==
    \/ \E id \in {P1, P2}, target \in {FAVORITES, UNCATEGORIZED, <<"llm">>} :
          TreeDrop(id, target)
    \/ \E path \in DOMAIN dom, id \in {P2, ExtId} : TreeToggleFavorite(path, id)
    \/ AppImportData(UnknownCategory, "json")
    \/ \E id \in {P1, ExtId} : TreeDeletePrompt(id, TRUE)

SpecTree == Init /\ [][NextTree]_vars

(***************************************************************************)
(* The search filter: queries that match one record, another, and none,    *)
(* applied one after the other, cleared, and kept while the tree is        *)
(* rendered again after a change.                                          *)
(***************************************************************************)
SearchQueries == {QueryJava, QueryUpper, QueryNothing}

NextSearch ==
    \/ \E query \in SearchQueries \cup {<<>>} : PerformSearch(query)
    \/ ClearSearch
    \/ \E path \in DOMAIN dom : TreeToggleFavorite(path, P2)
    \/ TreeDeletePrompt(P1, TRUE)

SpecSearch == Init /\ [][NextSearch]_vars

(***************************************************************************)
(* Import: the storage's importData with each format and both merge modes, *)
(* and the application's, over files whose records are valid or not, carry *)
(* an identifier the store has, a new one, the same one twice, or none.    *)
(***************************************************************************)
FileExistingAndNew ==
    YamlText([prompts |-> <<IncomingValid(P1, TitleOther, <<>>, FALSE),
                            IncomingValid(ExtId, TitleNew, <<>>, TRUE)>>])
FileInvalidExisting ==
    JsonText([prompts |-> <<IncomingInvalid(P1), IncomingNoId>>])
FileSameIdTwice ==
    JsonText([prompts |-> <<IncomingValid(ExtId, TitleNew, <<>>, FALSE),
                            IncomingValid(ExtId, TitleOther, <<>>, FALSE)>>])

ImportFiles ==
    {GarbageText, NullText, FileExistingAndNew, FileInvalidExisting, FileSameIdTwice}

NextImport ==
    \/ \E text \in ImportFiles, format \in {"auto", "json", "yaml", "xml"},
          merge \in BOOLEAN : StorageImportData(text, format, merge)
    \/ \E text \in ImportFiles, format \in {"json", "yaml"} : AppImportData(text, format)

SpecImport == Init /\ [][NextImport]_vars

(***************************************************************************)
(* Two tabs: the other tab deletes or retitles a record or wipes all data, *)
(* this tab handles the storage event, and its user goes on working (a     *)
(* favorite toggled, a record deleted, a search), which saves again.       *)
(***************************************************************************)
NextOtherTab ==
    \/ \E kind \in {"delete", "edit", "clearAll"}, id \in {P1, P2} : StorageChange(kind, id)
    \/ \E path \in DOMAIN dom : TreeToggleFavorite(path, P2)
    \/ TreeDeletePrompt(P1, TRUE)
    \/ PerformSearch(QueryJava)

SpecOtherTab == Init /\ [][NextOtherTab]_vars

(***************************************************************************)
(* Damaged storage: the page is opened over a store some of whose slots    *)
(* cannot be read, after work that changed the records and took backups.   *)
(***************************************************************************)
CollectionSlots == {"PROMPTS", "CATEGORIES", "FAVORITES", "SETTINGS"}

NextCorrupted ==
    \/ \E keys \in {CollectionSlots, CollectionSlots \cup {"BACKUP"}, {"PROMPTS"}} :
          CorruptedLoad(keys)
    \/ \E path \in DOMAIN dom : TreeToggleFavorite(path, P2)
    \/ TreeDeletePrompt(P1, TRUE)
    \/ \E id \in {P1, P2}, target \in {<<"llm">>, <<"general">>} : TreeDrop(id, target)

SpecCorrupted == Init /\ [][NextCorrupted]_vars

(***************************************************************************)
(* Duplicating: the records as they are at the start, favorited, or edited *)
(* through the editor with the version field left empty or with a title    *)
(* close to the longest the editor accepts.                                *)
(***************************************************************************)
TitleLong == [i \in 1..(MaxTitleLen - 3) |-> "x"]

FormLongTitle ==
    [EmptyForm EXCEPT !.title = TitleLong, !.prompt = BodyNew, !.version = DefaultVersion]

NextDuplicate ==
    \/ \E path \in DOMAIN dom : \E id \in DOMAIN dom[path].kids : TreeDuplicatePrompt(path, id)
    \/ \E path \in DOMAIN dom : TreeToggleFavorite(path, P2)
    \/ \E id \in {P1, P2} : EditorEditPrompt(id)
    \/ \E form \in {FormNoVersion, FormLongTitle} : EditorInput(form)
    \/ EditorSave(TRUE)

SpecDuplicate == Init /\ [][NextDuplicate]_vars

(***************************************************************************)
(* The YAML round trip of the stored records, as they are at the start or  *)
(* after an edit that leaves the optional fields empty, a favorite toggle  *)
(* or a move.                                                              *)
(***************************************************************************)
NextYaml ==
    \/ \E id \in {P1, P2} : YamlRoundTrip(id)
    \/ \E path \in DOMAIN dom : TreeToggleFavorite(path, P2)
    \/ \E id \in {P1, P2} : EditorEditPrompt(id)
    \/ \E form \in {FormNoVersion, FormFavorite} : EditorInput(form)
    \/ EditorSave(TRUE)
    \/ TreeDrop(P2, <<"llm">>)

SpecYaml == Init /\ [][NextYaml]_vars

(***************************************************************************)
(* The records: updates with fields the validation accepts or rejects, the *)
(* editor, a move, a backup and its restore.                               *)
(***************************************************************************)
VersionBad == <<"v", "1">>

UpdateInputs ==
    {[title |-> TitleOther], [title |-> <<>>], [version |-> VersionBad]}

NextRecords ==
    \/ \E data \in UpdateInputs : PromptUpdate(P1, data)
    \/ EditorEditPrompt(P2)
    \/ \E form \in {FormNoVersion, EmptyForm} : EditorInput(form)
    \/ EditorSave(TRUE)
    \/ TreeDrop(P1, <<"llm">>)
    \/ last.op = "init" /\ AppCreateBackup
    \/ StorageRestoreFromBackup(0)

SpecRecords == Init /\ [][NextRecords]_vars

(***************************************************************************)
(* The editor: a new record and an edit, over forms that are valid and     *)
(* forms with each of the violations, submitted with either answer to the  *)
(* question a dirty form asks, while another tab may replace the records.  *)
(***************************************************************************)
TitleBlank == <<" ", " ">>
TitleTooLong == [i \in 1..(MaxTitleLen + 1) |-> "x"]
BodyTooLong == [i \in 1..(MaxPromptLen + 1) |-> "x"]

FormValid == [EmptyForm EXCEPT !.title = TitleNew, !.prompt = BodyNew]

EditorForms ==
    {FormValid, FormFavorite,
     [FormValid EXCEPT !.title = <<>>],
     [FormValid EXCEPT !.title = TitleBlank],
     [FormValid EXCEPT !.type = ""],
     [FormValid EXCEPT !.prompt = <<>>],
     [FormValid EXCEPT !.title = TitleTooLong],
     [FormValid EXCEPT !.prompt = BodyTooLong],
     [FormValid EXCEPT !.version = VersionBad]}

NextEditor ==
    \/ EditorNewPrompt(<<>>)
    \/ EditorEditPrompt(P1)
    \/ \E form \in EditorForms : EditorInput(form)
    \/ \E confirmed \in BOOLEAN : EditorSave(confirmed)
    \/ EditorClose(TRUE)
    \/ StorageChange("edit", P1)

SpecEditor == Init /\ [][NextEditor]_vars

(***************************************************************************)
(* The search history: queries of one letter typed and submitted with      *)
(* Enter, a new one (the next letter) or one submitted before.             *)
(***************************************************************************)
MaxQueries == 11

Query(k) == <<LowerCase[k]>>

NextHistory ==
    \/ \E k \in 1..MaxQueries :
          /\ k <= Len(search.searchHistory) + 1
          /\ SearchInput(Query(k))
    \/ SearchEnter
    \/ SearchInput(<<>>)

SpecHistory == Init /\ [][NextHistory]_vars

(***************************************************************************)
(* Clearing the search: typing, the debounce timer, Enter, the clear       *)
(* button and Escape, and between them a reload that renders the tree.     *)
(***************************************************************************)
QueryJavax == <<"j", "a", "v", "a", "x">>

NextClear ==
    \/ \E value \in {QueryJava, QueryJavax} : SearchInput(value)
    \/ SearchTimeout
    \/ SearchEnter
    \/ ClearSearch
    \/ StorageChange("edit", P1)

SpecClear == Init /\ [][NextClear]_vars

(***************************************************************************)
(* The destructive operations, each with the confirmation given and        *)
(* declined, on a store with a backup that may differ from the state.      *)
(***************************************************************************)
NextConfirm ==
    \/ \E path \in DOMAIN dom : TreeSelectPrompt(path, P1)
    \/ \E id \in {P1, P2}, confirmed \in BOOLEAN : TreeDeletePrompt(id, confirmed)
    \/ \E confirmed \in BOOLEAN : ViewerDelete(confirmed)
    \/ \E confirmed \in BOOLEAN : AppClearAllData(confirmed)
    \/ \E confirmed \in BOOLEAN : AppRestoreBackup(confirmed)
    \/ Len(Backups(localStorage)) < MaxSnapshots /\ AppCreateBackup

SpecConfirm == Init /\ [][NextConfirm]_vars

(***************************************************************************)
(* Saves on a store that rejects writes, with up to MaxHeld backups held.  *)
(***************************************************************************)
MaxRejects == 2
MaxHeld == 3

NextQuota ==
    \/ \E path \in DOMAIN dom : TreeToggleFavorite(path, P1)
    \/ Tick
    \/ Len(Backups(localStorage)) < MaxHeld /\ AppCreateBackup
    \/ \E rejects \in 0..MaxRejects : SavePromptsRejecting(rejects, FALSE)
    \/ SavePromptsRejecting(0, TRUE)

SpecQuota == Init /\ [][NextQuota]_vars

(***************************************************************************)
(* The editor with typing, the ways of closing it answered both ways, and  *)
(* the shortcut of a new record.                                           *)
(***************************************************************************)
NextDirty ==
    \/ EditorNewPrompt(<<>>)
    \/ EditorEditPrompt(P1)
    \/ \E form \in {FormValid, FormFavorite, [FormValid EXCEPT !.title = <<>>]} :
          EditorInput(form)
    \/ \E confirmed \in BOOLEAN : EditorSave(confirmed)
    \/ \E confirmed \in BOOLEAN : EditorClose(confirmed)
    \/ KeyboardNewPrompt

SpecDirty == Init /\ [][NextDirty]_vars

(***************************************************************************)
(* Expanding and collapsing: single nodes, all nodes, and a filter that    *)
(* expands the categories of its matches.                                  *)
(***************************************************************************)
NextExpand ==
    \/ \E path \in {FAVORITES, <<"general">>, <<"linguaggi">>, <<"linguaggi", "java">>} :
          TreeToggleNode(path)
    \/ TreeExpandAll
    \/ TreeCollapseAll
    \/ PerformSearch(QueryJava)
    \/ ClearSearch
    \/ TreeDeletePrompt(P1, TRUE)

SpecExpand == Init /\ [][NextExpand]_vars

(***************************************************************************)
(* One of each operation that changes the data: create and edit in the     *)
(* editor, duplicate, delete, favorite toggle, move, new folder, expand    *)
(* and collapse, import, restore of a backup taken at the start, wipe.     *)
(***************************************************************************)
NextPersist ==
    \/ EditorNewPrompt(<<>>)
    \/ EditorEditPrompt(P1)
    \/ EditorInput(FormFavorite)
    \/ EditorSave(TRUE)
    \/ TreeDuplicatePrompt(<<"productivity">>, P2)
    \/ TreeDeletePrompt(P2, TRUE)
    \/ TreeToggleFavorite(<<"productivity">>, P2)
    \/ TreeDrop(P2, <<"general">>)
    \/ \E folderName \in {<<>>, FolderNew, FolderGeneral, FolderSigns} :
          AppCreateNewFolder(folderName)
    \/ TreeToggleNode(<<"linguaggi">>)
    \/ AppImportData(UnknownCategory, "json")
    \/ last.op = "init" /\ AppCreateBackup
    \/ AppRestoreBackup(TRUE)
    \/ AppClearAllData(TRUE)

SpecPersist == Init /\ [][NextPersist]_vars

(***************************************************************************)
(* Properties                                                              *)
(***************************************************************************)

\* C1: in every reachable state the favorites set is exactly the set of the
\* identifiers of the stored records whose favorite flag is true.
C1_FavoritesMatchFlags ==
    favorites = {id \in DOMAIN prompts : prompts[id].isFavorite}

\* C2: a confirmed delete of a stored record, from the tree or from the viewer,
\* takes its identifier out of the records and out of the favorites, makes the
\* collection one smaller and leaves every other record as it was; a delete of
\* an identifier that is not stored changes neither the records nor the
\* favorites.
C2_DeleteRemovesOne ==
    [][last'.op \in {"treeDelete", "viewerDelete"} =>
          IF last'.existed
          THEN last'.confirmed =>
                  /\ last'.id \notin DOMAIN prompts'
                  /\ last'.id \notin favorites'
                  /\ Cardinality(DOMAIN prompts') = Cardinality(DOMAIN prompts) - 1
                  /\ \A id \in DOMAIN prompts \ {last'.id} :
                        id \in DOMAIN prompts' /\ prompts'[id] = prompts[id]
          ELSE prompts' = prompts /\ favorites' = favorites]_vars

\* the bucket of the built tree a category path names
Bucket(tree, path) ==
    IF path = FAVORITES THEN tree.favorites
    ELSE IF path \in DOMAIN tree.categories THEN tree.categories[path].items
    ELSE {}

\* C3: in the built tree every record that is not favorited and whose category
\* is unset, or is a path with no stored category entry, is in the
\* uncategorized bucket and in no other bucket.
C3_UncategorizedBucket ==
    LET tree == buildTreeStructure(SM)
    IN  \A id \in DOMAIN prompts :
           (/\ ~prompts[id].isFavorite
            /\ (prompts[id].category = <<>> \/ prompts[id].category \notin DOMAIN categories))
           => /\ id \in tree.uncategorized
              /\ id \notin tree.favorites
              /\ \A path \in DOMAIN tree.categories : id \notin tree.categories[path].items

\* C4: in the built tree every record whose category is a stored category path
\* is in the bucket of that path, and every record whose favorite flag is true
\* is in the favorites bucket.
C4_CategoryAndFavoritesBuckets ==
    LET tree == buildTreeStructure(SM)
    IN  \A id \in DOMAIN prompts :
           /\ prompts[id].category \in DOMAIN categories
                 => id \in Bucket(tree, prompts[id].category)
           /\ prompts[id].isFavorite => id \in tree.favorites

\* C5: once the search filter is applied for a non-empty query, a record node is
\* displayed exactly when its record matches the query and a category node is
\* displayed exactly when a record node under it is; no category node is
\* displayed when no record matches.
C5_FilterShowsMatches ==
    [][(last'.op = "search" /\ last'.query # <<>>) =>
          \A path \in DOMAIN dom' :
             /\ \A id \in DOMAIN dom'[path].kids :
                   dom'[path].kids[id].display
                      <=> (id \in DOMAIN prompts' /\ matchesSearch(prompts'[id], last'.query))
             /\ dom'[path].display
                   <=> \E id \in DOMAIN dom'[path].kids : dom'[path].kids[id].display]_vars

\* the record the constructor makes of the i-th record of an import file, and
\* the identifiers the collection holds when that record is reached
Made(incoming, i) == Prompt(incoming[i], NoId)
Known(stored, incoming, i) ==
    stored \cup {incoming[j].id : j \in {k \in 1..(i - 1) :
                                            Has(incoming[k], "id") /\ Made(incoming, k).ok}}

\* C6 as the specification states it: an import with merge = true counts in
\* skipped every incoming record whose identifier the collection already has
\* and leaves the stored record of that identifier as it was; it adds, and
\* counts in imported, every valid incoming record with a new identifier.
C6_MergeSkipsExisting ==
    [][(last'.op \in {"importData", "appImport"} /\ last'.merge /\ ~last'.thrown) =>
          LET incoming == last'.incoming
              existing == {i \in 1..Len(incoming) :
                              Has(incoming[i], "id") /\ incoming[i].id \in DOMAIN prompts}
              new == {i \in 1..Len(incoming) :
                         Made(incoming, i).ok /\ i \notin existing}
          IN  /\ last'.skipped = Cardinality(existing)
              /\ \A id \in DOMAIN prompts :
                    id \in DOMAIN prompts' /\ prompts'[id] = prompts[id]
              /\ last'.imported = Cardinality(new)
              /\ Cardinality(DOMAIN prompts') =
                    Cardinality(DOMAIN prompts) + Cardinality(new)]_vars

\* C6, amended: an import with merge = true counts in skipped every valid
\* incoming record whose identifier the collection has when the record is
\* reached (a stored record, or a record the same file has added before) and
\* leaves every stored record as it was; it adds, and counts in imported, every
\* other valid incoming record; it counts the invalid ones in errors.
C6_MergeSkipsKnown ==
    [][(last'.op \in {"importData", "appImport"} /\ last'.merge /\ ~last'.thrown) =>
          LET incoming == last'.incoming
              valid == {i \in 1..Len(incoming) : Made(incoming, i).ok}
              known == {i \in valid :
                           /\ Has(incoming[i], "id")
                           /\ incoming[i].id \in Known(DOMAIN prompts, incoming, i)}
          IN  /\ last'.skipped = Cardinality(known)
              /\ last'.imported = Cardinality(valid \ known)
              /\ last'.errors = Len(incoming) - Cardinality(valid)
              /\ \A id \in DOMAIN prompts :
                    id \in DOMAIN prompts' /\ prompts'[id] = prompts[id]
              /\ \A i \in valid \ known :
                    Has(incoming[i], "id") =>
                       /\ incoming[i].id \in DOMAIN prompts'
                       /\ prompts'[incoming[i].id] = Made(incoming, i).p
              /\ Cardinality(DOMAIN prompts') =
                    Cardinality(DOMAIN prompts) + Cardinality(valid \ known)]_vars

\* an import with merge = true has skipped a record whose identifier was stored
\* and has added another
C6_Witness ==
    /\ last.op \in {"importData", "appImport"} /\ last.merge /\ ~last.thrown
    /\ last.skipped = 1 /\ last.imported = 1
    /\ P1 \in DOMAIN prompts /\ prompts[P1].title = TitleAICodeReview
    /\ ExtId \in DOMAIN prompts /\ prompts[ExtId].title = TitleNew

\* C7: when an import throws, whatever the text, the format and merge are, the
\* records, categories, favorites and settings in memory and every storage
\* slot are what they were before the call.
C7_FailedImportChangesNothing ==
    [][(last'.op \in {"importData", "appImport"} /\ last'.thrown) =>
          /\ prompts' = prompts
          /\ categories' = categories
          /\ favorites' = favorites
          /\ settings' = settings
          /\ localStorage' = localStorage]_vars

\* C8: the stored backup list never holds more than five snapshots and is
\* ordered newest first; each backup taken (by hand, by the timer, or twice as
\* the page unloads) puts the snapshot of the current state at the head and
\* keeps the snapshots that were there in their order, all but the oldest when
\* five were there.
C8_BackupListBounded ==
    [][LET old == Backups(localStorage)
           new == Backups(localStorage')
           taken == [timestamp |-> now, version |-> "1.0",
                     data |-> [prompts |-> prompts, categories |-> categories,
                               favorites |-> favorites, settings |-> settings]]
           kept(list, n) == SubSeq(list, 1, IF Len(list) < n THEN Len(list) ELSE n)
       IN  /\ Len(new) <= 5
           /\ \A i \in 1..(Len(new) - 1) : new[i].timestamp >= new[i + 1].timestamp
           /\ last'.op \in {"createBackup", "autoBackup"} =>
                 new = <<taken>> \o kept(old, 4)
           /\ last'.op = "beforeunload" =>
                 new = <<taken, taken>> \o kept(old, 3)]_vars

\* a backup has been taken while five snapshots were stored, and the list holds
\* snapshots of different times
C8_Witness ==
    /\ last.op \in {"createBackup", "autoBackup", "beforeunload"}
    /\ last.hadBackups = 5
    /\ Len(Backups(localStorage)) = 5
    /\ Backups(localStorage)[1].timestamp > Backups(localStorage)[5].timestamp

\* C9: restoreFromBackup(i) with i outside the stored list (any i when the list
\* is empty) returns false and leaves the records, categories, favorites and
\* settings in memory and every storage slot as they were.
C9_RestoreOutOfRange ==
    [][(/\ last'.op = "restoreFromBackup"
        /\ (last'.idx < 0 \/ last'.idx >= Len(Backups(localStorage)))) =>
          /\ ~last'.ok
          /\ prompts' = prompts
          /\ categories' = categories
          /\ favorites' = favorites
          /\ settings' = settings
          /\ localStorage' = localStorage]_vars

\* restoreFromBackup has failed on an index past a list that holds a snapshot,
\* with records in memory
C9_Witness ==
    /\ last.op = "restoreFromBackup" /\ ~last.ok
    /\ Backups(localStorage) # <<>>
    /\ last.idx >= Len(Backups(localStorage))
    /\ DOMAIN prompts # {}

\* C10: when restoreFromBackup(i) succeeds, the records, categories, favorites
\* and settings in memory are those of snapshot i and the four storage slots
\* hold what is in memory.
C10_RestoreEqualsSnapshot ==
    [][(last'.op = "restoreFromBackup" /\ last'.ok) =>
          LET data == Backups(localStorage)[last'.idx + 1].data
          IN  /\ prompts' = data.prompts
              /\ categories' = data.categories
              /\ favorites' = data.favorites
              /\ settings' = data.settings
              /\ localStorage'["PROMPTS"] = Some(prompts')
              /\ localStorage'["CATEGORIES"] = Some(categories')
              /\ localStorage'["FAVORITES"] = Some(favorites')
              /\ localStorage'["SETTINGS"] = Some(settings')]_vars

\* what a slot of the store holds, or dflt when the slot is empty
SlotOr(ls, key, dflt) ==
    IF getFromStorage(ls, key) = Null THEN dflt ELSE getFromStorage(ls, key)[1]

\* C11: once this tab has handled the storage event of another tab's write (an
\* edit, a delete, or a wipe of all data), the records, categories, favorites
\* and settings it holds are those the store holds, the change notification
\* has been dispatched, and so no record the other tab removed is left to be
\* written back by a later save.
C11_StorageChangeReloads ==
    [][last'.op = "storageChange" =>
          /\ [id \in DOMAIN prompts' |-> toObject(prompts'[id])]
                = SlotOr(localStorage', "PROMPTS", EmptyMap)
          /\ categories' = SlotOr(localStorage', "CATEGORIES", EmptyMap)
          /\ favorites' = SlotOr(localStorage', "FAVORITES", {})
          /\ settings' = Spread(getDefaultSettings,
                                SlotOr(localStorage', "SETTINGS", EmptyMap))
          /\ "storagechange" \in last'.events]_vars

\* C12: when the four collection slots cannot be read at load, the
\* StorageManager holds the collections of the most recent backup if the
\* backup list holds one, and otherwise no record, the default categories, no
\* favorite and the default settings.
C12_CorruptedLoadRecovers ==
    [][(last'.op = "corruptedLoad" /\ CollectionSlots \subseteq last'.loaded[1].slots) =>
          LET got == last'.loaded[1]
          IN  IF got.backups # <<>>
              THEN /\ [id \in DOMAIN got.prompts |-> toObject(got.prompts[id])]
                         = got.backups[1].data.prompts
                   /\ got.categories = got.backups[1].data.categories
                   /\ got.favorites = got.backups[1].data.favorites
                   /\ got.settings = got.backups[1].data.settings
              ELSE /\ got.prompts = EmptyMap
                   /\ got.categories = defaultCategories
                   /\ got.favorites = {}
                   /\ got.settings = getDefaultSettings]_vars

\* C13: duplicating a stored record r adds exactly one record; its identifier
\* is none of the identifiers stored before, its title is r's title followed by
\* " (Copy)", each of its other fields equals r's, and every record stored
\* before, r included, is as it was.
C13_DuplicateAddsCopy ==
    [][last'.op = "duplicate" =>
          /\ \A id \in DOMAIN prompts : id \in DOMAIN prompts' /\ prompts'[id] = prompts[id]
          /\ Cardinality(DOMAIN prompts' \ DOMAIN prompts) = 1
          /\ \A new \in DOMAIN prompts' \ DOMAIN prompts :
                /\ prompts'[new].title = prompts[last'.id].title \o CopyMarker
                /\ \A f \in DOMAIN prompts[last'.id] \ {"id", "title"} :
                      prompts'[new][f] = prompts[last'.id][f]]_vars

FavoriteToggles == {"treeToggleFavorite", "viewerToggleFavorite"}

\* C14: a favorite toggle of a stored record, from the tree or from the viewer,
\* puts the record into the favorites bucket of the tree or takes it out of
\* it, so that the bucket's size changes by exactly one and no other record
\* enters or leaves; a second toggle of the same record right after the first
\* brings back the favorites set and the favorites bucket (hence the flag)
\* that the first one found.
C14_ToggleFavoriteBucket ==
    [][(last'.op \in FavoriteToggles /\ last'.existed) =>
          LET id == last'.id
              bucket == buildTreeStructure(SM).favorites
              after == buildTreeStructure(SM').favorites
          IN  /\ \/ id \notin bucket /\ after = bucket \cup {id}
                 \/ id \in bucket /\ after = bucket \ {id}
              /\ (last.op \in FavoriteToggles /\ last.id = id) =>
                    /\ favorites' = last.before[1].favorites
                    /\ after = last.before[1].bucket]_vars

\* C15: the record made by fromYAML of the text toYAML makes of a stored record
\* has, field by field, the values of that record (a field left out of the
\* text because it was empty comes back empty).
C15_YamlRoundTrip ==
    [][last'.op = "yamlRoundTrip" =>
          /\ last'.ok
          /\ \A f \in DOMAIN prompts[last'.id] :
                last'.loaded[1][f] = prompts[last'.id][f]]_vars

\* C16: in every reachable state, whatever created, updated, imported, loaded
\* or restored the records and whether the operation failed or not, every
\* stored record has a title, a type and a body that are not empty, a type of
\* the enumeration, a title of at most 200 and a body of at most 10000
\* characters, at most 20 tags, and a version that is empty or has the form
\* X.Y or X.Y.Z.
C16_RecordsValid ==
    \A id \in DOMAIN prompts :
       LET p == prompts[id]
       IN  /\ trim(p.title) # <<>>
           /\ p.type # ""
           /\ trim(p.prompt) # <<>>
           /\ p.type \in TYPES
           /\ Len(p.title) <= 200
           /\ Len(p.prompt) <= 10000
           /\ Len(p.tags) <= 20
           /\ p.version = <<>> \/ isVersion(p.version)

\* the violations a form can have
FormViolates(form) ==
    \/ trim(form.title) = <<>>
    \/ form.type = ""
    \/ trim(form.prompt) = <<>>
    \/ Len(form.title) > 200
    \/ Len(form.prompt) > 10000
    \/ form.version # <<>> /\ ~isVersion(form.version)

\* C17: a submit of the editor whose form has a violation (no title, type or
\* body, a title of more than 200 or a body of more than 10000 characters, a
\* version that is not empty and has not the form X.Y or X.Y.Z) changes
\* neither the records, nor the favorites, nor any storage slot, dispatches
\* neither 'prompt-created' nor 'prompt-updated', and leaves the editor open
\* with its form.
C17_InvalidSubmitChangesNothing ==
    [][(last'.op = "save" /\ FormViolates(editor.form)) =>
          /\ prompts' = prompts
          /\ favorites' = favorites
          /\ localStorage' = localStorage
          /\ last'.events \cap {"prompt-created", "prompt-updated"} = {}
          /\ editor'.open
          /\ editor' = editor]_vars

\* an edit of a stored record has been submitted with a version that has not
\* the form, and the editor is still open on it
C17_Witness ==
    /\ last.op = "save" /\ last.events = {}
    /\ editor.open /\ editor.isEditing /\ editor.isDirty
    /\ editor.form.version = VersionBad
    /\ FormViolates(editor.form)
    /\ editor.cur # Null /\ editor.cur[1].id \in DOMAIN prompts

\* C18: after every submit of the editor that saves, on the creation path or
\* on the edit path, the record is stored and the storage slot of the records
\* holds it as it is in memory, 'prompt-created' or 'prompt-updated' has been
\* dispatched for its identifier, and the editor is closed and not dirty.
C18_SaveClosesEditor ==
    [][(last'.op = "save" /\ last'.ok) =>
          /\ last'.id \in DOMAIN prompts'
          /\ getFromStorage(localStorage', "PROMPTS") # Null
          /\ last'.id \in DOMAIN getFromStorage(localStorage', "PROMPTS")[1]
          /\ getFromStorage(localStorage', "PROMPTS")[1][last'.id] = toObject(prompts'[last'.id])
          /\ last'.events = {IF editor.isEditing /\ editor.cur # Null
                             THEN "prompt-updated" ELSE "prompt-created"}
          /\ ~editor'.open
          /\ ~editor'.isDirty]_vars

\* getgetSelectedPromptId(): the identifier of the selected node when it is a
\* record node
getSelectedPromptId(sel) ==
    IF sel # Null /\ sel[1].type = "prompt" THEN Some(sel[1].id) ELSE Null

\* C19: after a confirmed delete of the record that is selected in the tree,
\* from the tree or from the viewer, the tree has no selected record and the
\* viewer shows the welcome screen.
C19_DeleteClearsSelection ==
    [][(/\ last'.op \in {"treeDelete", "viewerDelete"}
        /\ last'.ok /\ last'.existed
        /\ getSelectedPromptId(selectedNode) = Some(last'.id)) =>
          /\ getSelectedPromptId(selectedNode') = Null
          /\ viewer' = showWelcomeScreen]_vars

\* C20: after a stored record is dropped on a rendered category node (a stored
\* category, the favorites node or the uncategorized node), the record's
\* category is the path of that node, the storage slot of the records holds
\* the record with that category, and the tree rendered anew lists the record
\* under the node of that path.
C20_DropMovesRecord ==
    [][(last'.op = "drop" /\ last'.existed) =>
          /\ prompts'[last'.id].category = last'.path
          /\ getFromStorage(localStorage', "PROMPTS") # Null
          /\ last'.id \in DOMAIN getFromStorage(localStorage', "PROMPTS")[1]
          /\ getFromStorage(localStorage', "PROMPTS")[1][last'.id].category = last'.path
          /\ last'.path \in DOMAIN dom'
          /\ last'.id \in DOMAIN dom'[last'.path].kids]_vars

\* C21: after every search submitted with Enter the history has at most 10
\* entries, no entry twice, and, when the query was not empty, that query at
\* its head, whether the history held it before or not.
C21_HistoryMostRecentFirst ==
    [][last'.op = "executeSearch" =>
          LET history == search'.searchHistory
          IN  /\ Len(history) <= 10
              /\ \A i, j \in 1..Len(history) : history[i] = history[j] => i = j
              /\ last'.query # <<>> => (history # <<>> /\ history[1] = last'.query)]_vars

\* every rendered node is displayed and no title is highlighted
Unfiltered(d) ==
    \A p \in DOMAIN d :
       /\ d[p].display
       /\ \A id \in DOMAIN d[p].kids : d[p].kids[id].display /\ ~d[p].kids[id].highlighted

\* C22: after the clear button or Escape the search box and the current query
\* are empty, the tree has no filter, every node is displayed and no title is
\* highlighted; and from then on, whatever happens but a new input in the
\* search box (the timer scheduled before the clear included), the tree stays
\* so.
C22_ClearStaysCleared ==
    [][/\ last'.op = "clearSearch" =>
             /\ search'.input = <<>> /\ search'.currentQuery = <<>>
             /\ searchQuery' = <<>>
             /\ Unfiltered(dom')
       /\ (/\ search.currentQuery = <<>> /\ searchQuery = <<>> /\ Unfiltered(dom)
           /\ last'.op # "searchInput") =>
             /\ search'.currentQuery = <<>>
             /\ searchQuery' = <<>>
             /\ Unfiltered(dom')]_vars

\* the search has been cleared while a filter was applied and a debounced
\* search of a newer query was pending
C22_Witness ==
    /\ last.op = "clearSearch"
    /\ last.query = QueryJavax
    /\ last.before[1].searchTimeout
    /\ last.before[1].searchQuery = QueryJava
    /\ Unfiltered(dom)

\* C23: a delete of a record (from the tree or from the viewer), a clear of all
\* data and a restore of the backup whose confirmation is declined leave the
\* records, the categories, the favorites, the settings and every storage
\* slot as they were.
C23_DeclinedChangesNothing ==
    [][(/\ last'.op \in {"treeDelete", "viewerDelete", "clearAllData", "appRestore"}
        /\ ~last'.confirmed) =>
          /\ prompts' = prompts
          /\ categories' = categories
          /\ favorites' = favorites
          /\ settings' = settings
          /\ localStorage' = localStorage]_vars

\* the clear of all data has been declined on a store that holds records, a
\* favorite and a backup
C23_Witness ==
    /\ last.op = "clearAllData" /\ ~last.confirmed
    /\ DOMAIN prompts # {} /\ favorites # {}
    /\ Backups(localStorage) # <<>>

\* the record id carries, in the given record collection, the values of form
Carries(records, id, form) ==
    /\ id \in DOMAIN records
    /\ \A f \in allowedFields \cap DOMAIN collectFormData(form) :
          records[id][f] = collectFormData(form)[f]

\* C24: whenever the editor reports a successful save on the edit path, the
\* record with that identifier carries the submitted field values in the
\* record collection and in the stored records slot, also when a reload after
\* another tab's write happened while the editor was open.
C24_EditSavePersists ==
    [][(last'.op = "save" /\ last'.ok /\ editor.isEditing /\ editor.cur # Null) =>
          /\ Carries(prompts', last'.id, editor.form)
          /\ getFromStorage(localStorage', "PROMPTS") # Null
          /\ Carries(getFromStorage(localStorage', "PROMPTS")[1], last'.id, editor.form)]_vars

\* C25: a save whose write the store rejects for lack of space ends without
\* an exception, also when the store rejects every write: it issues the
\* warning, leaves the slot of the failed write as it was, and the backup list
\* is the old one or its newest MAX_BACKUPS / 2 entries; when only that one
\* write is rejected the list is cut and the store is written once more.
C25_QuotaSaveTerminates ==
    [][(last'.op = "savePrompts" /\ last'.idx > 0) =>
          /\ last'.ok /\ ~last'.thrown
          /\ last'.warnings >= 1
          /\ localStorage'["PROMPTS"] = localStorage["PROMPTS"]
          /\ Backups(localStorage') \in
                {Backups(localStorage),
                 Slice(Backups(localStorage), MAX_BACKUPS \div 2)}
          /\ last'.idx = 1 =>
                /\ Backups(localStorage') =
                      Slice(Backups(localStorage), MAX_BACKUPS \div 2)
                /\ last'.writes = 2 /\ last'.warnings = 1]_vars

\* C26: while the editor is open and dirty, a step other than the user's own
\* typing changes the contents of its form or closes it only when the user
\* confirmed.
C26_DirtyFormKept ==
    [][(/\ editor.open /\ editor.isDirty
        /\ last'.op # "input"
        /\ editor'.form # editor.form \/ ~editor'.open) => last'.confirmed]_vars

\* the stored settings hold the list of expanded paths that is the set of the tree
ExpandedStored(ls, expanded) ==
    /\ getFromStorage(ls, "SETTINGS") # Null
    /\ Has(getFromStorage(ls, "SETTINGS")[1], "expandedNodes")
    /\ getFromStorage(ls, "SETTINGS")[1].expandedNodes = expanded

\* C27: after collapse-all, whatever was expanded before, the favorites node is
\* expanded and every other rendered category node is collapsed; after
\* expand-all every rendered category node is expanded; in both cases the
\* stored list of expanded paths is the resulting set.
C27_ExpandCollapseAll ==
    [][/\ last'.op = "collapseAll" =>
             /\ FAVORITES \in DOMAIN dom' =>
                   dom'[FAVORITES].expanded /\ FAVORITES \in expandedNodes'
             /\ \A p \in DOMAIN dom' \ {FAVORITES} :
                   ~dom'[p].expanded /\ p \notin expandedNodes'
             /\ ExpandedStored(localStorage', expandedNodes')
       /\ last'.op = "expandAll" =>
             /\ \A p \in DOMAIN dom' : dom'[p].expanded /\ p \in expandedNodes'
             /\ ExpandedStored(localStorage', expandedNodes')]_vars

\* C28: the record the viewer shows, if any, is the very instance the record
\* collection holds under its identifier.
C28_ViewerShowsLiveRecord ==
    viewer # Null =>
       /\ viewer[1].live
       /\ viewer[1].id \in DOMAIN prompts

\* C29: at most one debounced search is pending at any time; a keystroke
\* cancels the pending one and schedules a new one, whose handle the
\* controller holds; the search a timer triggers is made with the query typed
\* last and filters the tree by it; Enter filters by the current query at once
\* and leaves no timer pending.
C29_DebounceSinglePending ==
    [][/\ Cardinality(search'.timers) <= 1
       /\ last'.op = "searchInput" =>
             /\ search'.searchTimeout # Null
             /\ search'.timers = {search'.searchTimeout[1]}
             /\ search'.currentQuery = last'.query
             /\ searchQuery' = searchQuery
       /\ last'.op = "searchTimeout" =>
             /\ search.timers # {} /\ search'.timers = {}
             /\ last'.query = search.currentQuery
             /\ searchQuery' = toLowerCase(search.currentQuery)
       /\ last'.op = "executeSearch" =>
             /\ search'.timers = {}
             /\ searchQuery' = toLowerCase(search.currentQuery)]_vars

\* a keystroke has replaced a pending search of another query
C29_Witness ==
    /\ last.op = "searchInput"
    /\ search.currentQuery = QueryJavax
    /\ searchQuery = toLowerCase(QueryJava)
    /\ Cardinality(search.timers) = 1

\* what a new StorageManager loads from the store is what sm holds in memory
LoadsBack(sm) ==
    \E fresh \in {loadData(NewStorage(sm.ls))} :
       /\ [id \in DOMAIN fresh.prompts |-> toObject(fresh.prompts[id])] =
             [id \in DOMAIN sm.prompts |-> toObject(sm.prompts[id])]
       /\ fresh.categories = sm.categories
       /\ fresh.favorites = sm.favorites
       /\ fresh.settings = sm.settings

MutatingOps ==
    {"save", "duplicate", "treeDelete", "viewerDelete", "treeToggleFavorite",
     "viewerToggleFavorite", "drop", "newFolder", "toggleNode", "expandAll",
     "collapseAll", "importData", "appRestore", "clearAllData"}

\* C30: after every completed operation that changes the data (create, edit,
\* duplicate, delete, favorite toggle, move, new folder, expand and collapse,
\* import, restore, wipe), loading the collections again from the store
\* yields the records, categories, favorites and settings held in memory.
C30_StoreMatchesMemory ==
    [][(last'.op \in MutatingOps /\ SM' # SM) => LoadsBack(SM')]_vars
====
